---- MODULE Spec2Model ----
(***************************************************************************)
(* junkie: a dependency-injection resolver (src/junkie/_junkie.py).        *)
(*                                                                         *)
(* One Junkie object, driven by a client that opens `with j.inject(...)`   *)
(* blocks, nests them, leaves them normally or by an exception.  The       *)
(* recursive build (_build_instance and the methods it calls) is           *)
(* deterministic and is modelled by recursive operators over a record of   *)
(* the Junkie's fields; the actions are the client-visible operations:     *)
(* entering an inject context, leaving it normally, leaving it by an       *)
(* exception raised in the with-body.                                      *)
(*                                                                         *)
(* Spec is a client with factories that depend on each other, acquire      *)
(* resources and open injects of their own; ParamSpec is a client whose    *)
(* factories have parameters of every kind, for every registry that holds  *)
(* a subset of the names of these parameters.                              *)
(***************************************************************************)
EXTENDS Integers, Sequences, FiniteSets, TLC

\* Bounds of the model.
MaxInjects == 3
MaxDepth == 2
MaxParamInjects == 2

----------------------------------------------------------------------------
(* Values, targets, errors *)

\* A Python value: an object built by a factory (identified by its index in
\* the heap `insts`), a plain registry value, or the Junkie itself.
Inst(i) == [kind |-> "inst", id |-> i]
Plain(v) == [kind |-> "plain", id |-> v]
JunkieSelf == [kind |-> "junkie", id |-> 0]
\* Another Junkie object, by its index in `junkies`.
JunkieRef(i) == [kind |-> "junkie", id |-> i]
\* None, which is a plain value like any other.
PyNone == [kind |-> "None", id |-> 0]
\* A tuple or list and a dict of plain values, by their index in Tuples, Dicts.
TupleV(i) == [kind |-> "tuple", id |-> i]
DictV(i) == [kind |-> "dict", id |-> i]
\* What a parameter holds when no argument is passed for it: its default.
Default == [kind |-> "default", id |-> 0]

Tuples == [i \in {0, 1} |-> IF i = 0 THEN <<>> ELSE <<Plain(11), Plain(12)>>]
Dicts == [i \in {0, 1} |-> IF i = 0 THEN [m \in {} |-> Plain(0)]
                                   ELSE [m \in {"k"} |-> Plain(13)]]

\* An inject target: a string (registry name), a callable (factory
\* reference) or anything else.
N(n) == [kind |-> "name", id |-> n]
F(f) == [kind |-> "factory", id |-> f]
Other(v) == [kind |-> "other", id |-> v]

NoName == "None"
NoAnn == "empty"

NoErr == [kind |-> "none", why |-> "", subj |-> "", fac |-> "", path |-> <<>>]
ValueError == [kind |-> "ValueError", why |-> "", subj |-> "", fac |-> "", path |-> <<>>]
BodyError == [kind |-> "BodyError", why |-> "", subj |-> "", fac |-> "", path |-> <<>>]
\* Raised by the __exit__ of the product of factory f.
ReleaseError(f) == [kind |-> "ReleaseError", why |-> "", subj |-> "", fac |-> f, path |-> <<>>]
\* Raised at the yield of a generator that is closed.
GeneratorExit == [kind |-> "GeneratorExit", why |-> "", subj |-> "", fac |-> "", path |-> <<>>]
\* Raised by the call of a factory whose arguments do not fit its signature.
TypeError == [kind |-> "TypeError", why |-> "", subj |-> "", fac |-> "", path |-> <<>>]

----------------------------------------------------------------------------
(* The factories of the client program and the registry handed to Junkie() *)

\* A parameter of a signature: its name, its kind (inspect.Parameter.kind),
\* whether it declares a default, and its annotation when that is callable.
Param(n) == [name |-> n, kind |-> "POSITIONAL_OR_KEYWORD", hasDefault |-> FALSE, ann |-> NoAnn]
Typed(n, f) == [name |-> n, kind |-> "POSITIONAL_OR_KEYWORD", hasDefault |-> FALSE, ann |-> f]
Kind(p, kind) == [p EXCEPT !.kind = kind]
Dflt(p) == [p EXCEPT !.hasDefault = TRUE]
PosOnly(p) == Kind(p, "POSITIONAL_ONLY")
KwOnly(p) == Kind(p, "KEYWORD_ONLY")
VarArgs(n) == Kind(Param(n), "VAR_POSITIONAL")
VarKw(n) == Kind(Param(n), "VAR_KEYWORD")

\* body:    "return" - returns its product; "raise" - raises ValueError;
\*          "nested" - opens `with _junkie.inject(*nest)` and closes it
\*                     again before returning its product.
\* product: "obj"    - an object without __enter__;
\*          "res"    - a scoped resource whose __enter__ returns self;
\*          "resx"   - such a resource whose __exit__ raises ReleaseError;
\*          "gen"    - a @contextmanager generator yielding a fresh value;
\*          "cmnest" - a @contextmanager generator that yields from inside
\*                     `with _junkie.inject(*nest)`, which it holds open;
\*          "cmlist" - the wrapper of inject_list(*nest): as "cmnest", but
\*                     it yields the list of what the inject yielded;
\*          "tuple"  - the tuple Tuples[1];  "dict" - the dict Dicts[1].
Fac(params, body, product, nest) ==
    [params |-> params, body |-> body, product |-> product, nest |-> nest]

Factories ==
    [f \in {"A", "D", "X", "Y", "P", "Q", "R", "S", "Bad", "G", "Nst", "NstR", "W", "T", "Gen",
            "B", "Bd", "Ca", "Pos", "Mix", "Req", "Star", "Var", "Var2", "Txt",
            "MkTuple", "MkDict", "str", "dict", "Jk", "L1", "L2", "R1", "R2", "R3",
            "Database", "App"} |->
        CASE f = "A"    -> Fac(<<>>, "return", "obj", <<>>)
          [] f = "D"    -> Fac(<<>>, "return", "res", <<>>)
          [] f = "X"    -> Fac(<<Param("d")>>, "return", "res", <<>>)
          [] f = "Y"    -> Fac(<<Param("d")>>, "return", "obj", <<>>)
          [] f = "P"    -> Fac(<<Param("q")>>, "return", "obj", <<>>)
          [] f = "Q"    -> Fac(<<Param("p")>>, "return", "obj", <<>>)
          [] f = "R"    -> Fac(<<Typed("r", "R")>>, "return", "obj", <<>>)
          [] f = "S"    -> Fac(<<Param("_junkie")>>, "nested", "obj", <<F("S")>>)
          [] f = "Bad"  -> Fac(<<>>, "raise", "obj", <<>>)
          [] f = "G"    -> Fac(<<Param("x"), Param("bad")>>, "return", "obj", <<>>)
          [] f = "Nst"  -> Fac(<<Param("_junkie")>>, "nested", "obj", <<N("y")>>)
          [] f = "NstR" -> Fac(<<Param("_junkie")>>, "nested", "res", <<F("A")>>)
          [] f = "W"    -> Fac(<<Param("_junkie")>>, "return", "cmnest", <<F("D")>>)
          [] f = "T"    -> Fac(<<Typed("t", "A"), Param("n")>>, "return", "obj", <<>>)
          [] f = "Gen"  -> Fac(<<>>, "return", "gen", <<>>)
          \* def __init__(self, a: A)
          [] f = "B"    -> Fac(<<Typed("a", "A")>>, "return", "obj", <<>>)
          \* def __init__(self, a: A = None)
          [] f = "Bd"   -> Fac(<<Dflt(Typed("a", "A"))>>, "return", "obj", <<>>)
          \* def __init__(self, a: D)
          [] f = "Ca"   -> Fac(<<Typed("a", "D")>>, "return", "obj", <<>>)
          \* def __init__(self, a="..", b="..", /)
          [] f = "Pos"  -> Fac(<<PosOnly(Dflt(Param("a"))), PosOnly(Dflt(Param("b")))>>,
                               "return", "obj", <<>>)
          \* def __init__(self, a="..", /, b="..", *, c="..")
          [] f = "Mix"  -> Fac(<<PosOnly(Dflt(Param("a"))), Dflt(Param("b")),
                                 KwOnly(Dflt(Param("c")))>>, "return", "obj", <<>>)
          \* def __init__(self, a, /, b, *, c)
          [] f = "Req"  -> Fac(<<PosOnly(Param("a")), Param("b"), KwOnly(Param("c"))>>,
                               "return", "obj", <<>>)
          \* def __init__(self, a="..", *args)
          [] f = "Star" -> Fac(<<Dflt(Param("a")), VarArgs("args")>>, "return", "obj", <<>>)
          \* def __init__(self, b, *args, **kwargs)
          [] f = "Var"  -> Fac(<<Param("b"), VarArgs("args"), VarKw("kwargs")>>,
                               "return", "obj", <<>>)
          \* def __init__(self, *items, **opts)
          [] f = "Var2" -> Fac(<<VarArgs("items"), VarKw("opts")>>, "return", "obj", <<>>)
          \* def __init__(self, c: str)
          [] f = "Txt"  -> Fac(<<Typed("c", "str")>>, "return", "obj", <<>>)
          \* lambda: (1, 2, 3) and lambda: {"a": "a"}
          [] f = "MkTuple" -> Fac(<<>>, "return", "tuple", <<>>)
          [] f = "MkDict"  -> Fac(<<>>, "return", "dict", <<>>)
          \* the built-in types, were they ever called
          [] f = "str"  -> Fac(<<>>, "return", "obj", <<>>)
          [] f = "dict" -> Fac(<<>>, "return", "obj", <<>>)
          \* def __init__(self, _junkie)
          [] f = "Jk"   -> Fac(<<Param("_junkie")>>, "return", "obj", <<>>)
          \* inject_list(D) and inject_list("d", A)
          [] f = "L1"   -> Fac(<<Param("_junkie")>>, "return", "cmlist", <<F("D")>>)
          [] f = "L2"   -> Fac(<<Param("_junkie")>>, "return", "cmlist", <<N("d"), F("A")>>)
          \* resources that depend on each other; two of them fail to release
          [] f = "R1"   -> Fac(<<>>, "return", "resx", <<>>)
          [] f = "R2"   -> Fac(<<Param("r1")>>, "return", "resx", <<>>)
          [] f = "R3"   -> Fac(<<Param("r2")>>, "return", "res", <<>>)
          \* def __init__(self, _) and def __init__(self, database: Database)
          [] f = "Database" -> Fac(<<Param("_")>>, "return", "obj", <<>>)
          [] f = "App"  -> Fac(<<Typed("database", "Database")>>, "return", "obj", <<>>)]

BUILTINS == {"str", "dict"}

Value(v) == [callable |-> FALSE, fac |-> "", val |-> v]
Factory(f) == [callable |-> TRUE, fac |-> f, val |-> Plain(0)]

\* The mapping given to Junkie(...), before __init__ adds "_junkie".
Registry ==
    [n \in {"logger", "a", "b", "d", "x", "y", "p", "q", "bad", "g", "n", "nr", "db", "gen",
            "one", "lst"} |->
        CASE n = "logger" -> Value(Plain(1))
          [] n = "a"   -> Factory("A")
          [] n = "b"   -> Factory("A")
          [] n = "d"   -> Factory("D")
          [] n = "x"   -> Factory("X")
          [] n = "y"   -> Factory("Y")
          [] n = "p"   -> Factory("P")
          [] n = "q"   -> Factory("Q")
          [] n = "bad" -> Factory("Bad")
          [] n = "g"   -> Factory("G")
          [] n = "one" -> Factory("L1")
          [] n = "lst" -> Factory("L2")
          [] n = "n"   -> Factory("Nst")
          [] n = "nr"  -> Factory("NstR")
          [] n = "db"  -> Factory("W")
          [] n = "gen" -> Factory("Gen")]

\* The registries of the clients that exercise the parameter kinds: every
\* subset of the names a, b, c, args, kwargs is present as a plain value,
\* next to the names that are mapped to factories.
ParamValues ==
    [n \in {"a", "b", "c", "args", "kwargs"} |->
        CASE n = "a" -> Value(Plain(2))
          [] n = "b" -> Value(Plain(3))
          [] n = "c" -> Value(PyNone)
          [] n = "args" -> Value(TupleV(1))
          [] n = "kwargs" -> Value(DictV(1))]

ParamFactories ==
    [n \in {"items", "opts", "s"} |->
        CASE n = "items" -> Factory("MkTuple")
          [] n = "opts" -> Factory("MkDict")
          [] n = "s" -> Factory("str")]

ParamRegistries ==
    { [n \in S \cup DOMAIN ParamFactories |->
          IF n \in S THEN ParamValues[n] ELSE ParamFactories[n]] :
      S \in SUBSET DOMAIN ParamValues }

\* The target lists these clients pass to inject.
ParamTargetLists ==
    { <<F("Bd"), F("B")>>, <<F("Bd")>>, <<F("B"), F("Ca")>>, <<F("Ca"), F("B")>>,
      <<F("Pos")>>, <<F("Mix")>>, <<F("Req")>>, <<F("Star")>>, <<F("Var")>>,
      <<F("Var2")>>, <<F("Txt")>>, <<F("str")>>, <<N("s")>>, <<N("a")>>,
      <<N("items"), N("a")>>,
      <<Other("42")>>, <<F("Bd"), Other("42"), F("B")>>, <<F("App")>> }

\* The target lists the client passes to inject.
TargetLists ==
    { <<N("a")>>, <<F("A")>>, <<N("a"), N("b")>>, <<N("a"), F("A"), N("a")>>,
      <<N("x"), N("y")>>, <<N("y"), N("x")>>, <<N("d"), N("gen")>>,
      <<N("p")>>, <<F("R")>>, <<F("S")>>,
      <<N("bad")>>, <<N("g")>>,
      <<N("n"), N("x")>>, <<N("n"), N("g")>>, <<N("nr")>>, <<N("db"), N("x")>>, <<F("T")>>,
      <<N("lst"), N("x")>>, <<N("one")>>, <<N("n"), N("lst")>> }

----------------------------------------------------------------------------
VARIABLES
    context,                        \* Junkie._context
    frames,                         \* heap of the dicts name -> instance
    instances_by_name,              \* Junkie._instances_by_name (a dict of `frames`)
    instances_by_name_stack,        \* Junkie._instances_by_name_stack
    exit_stacks,                    \* heap of the ExitStack objects: pending callbacks
    exit_stack,                     \* Junkie._exit_stack (an ExitStack of `exit_stacks`, 0 is None)
    instantiation_stack,            \* Junkie._instantiation_stack
    cycle_detection_instance_set,   \* Junkie._cycle_detection_instance_set
    insts,                          \* heap of the objects the factories returned
    calls,                          \* every inject(...) generator created so far
    withStack,                      \* the client's open with-blocks, innermost last
    acquired,                       \* history: objects whose __enter__ has returned, in order
    released,                       \* history: objects whose __exit__ has been called, in order
    lastOp,                         \* the operation just performed and what it logged
    junkies,                        \* the other Junkie objects constructed so far
    ctx_instances,                  \* Context._instances
    ctx_factories,                  \* Context._factories
    ctx_latest,                     \* history: the entry each name was last added with
    ctx_built,                      \* what the last Context.build(name) yielded
    instance_stack,                 \* DependencyCycleChecker._instance_stack: its keys
    checked                         \* the last call on the checker and its outcome

\* The fields of the Junkie and the heaps its builds work on.
junkieVars == <<context, frames, instances_by_name, instances_by_name_stack, exit_stacks,
                exit_stack, instantiation_stack, cycle_detection_instance_set, insts,
                calls, withStack, acquired, released>>
contextVars == <<ctx_instances, ctx_factories, ctx_latest, ctx_built>>
checkerVars == <<instance_stack, checked>>

vars == <<context, frames, instances_by_name, instances_by_name_stack, exit_stacks,
          exit_stack, instantiation_stack, cycle_detection_instance_set, insts,
          calls, withStack, acquired, released, lastOp, junkies,
          ctx_instances, ctx_factories, ctx_latest, ctx_built, instance_stack, checked>>

----------------------------------------------------------------------------
(* Helpers *)

Peek(stack) == stack[Len(stack)]
Pop(stack) == SubSeq(stack, 1, Len(stack) - 1)
EmptyDict == [m \in {} |-> Plain(0)]
Bind(dict, n, v) == [m \in (DOMAIN dict) \cup {n} |-> IF m = n THEN v ELSE dict[m]]

Event(ev, fac, name, inst, call) ==
    [ev |-> ev, fac |-> fac, name |-> name, inst |-> inst, call |-> call]
Log(s, e) == [s EXCEPT !.log = Append(@, e)]

\* Junkie._build_parameters, lines 145-149: the arguments collected for the
\* call of a factory.  positional_params and keyword_params keep the order
\* of insertion; args and kwargs start as () and {}.
EmptyArgs ==
    [positional_params |-> <<>>, args |-> TupleV(0), keyword_params |-> <<>>,
     kwargs |-> DictV(0), positional_params_finished |-> FALSE]

\* What a callee holds once it is called: its named parameters, its *args
\* and its **kwargs.
Bound0 == [ok |-> TRUE, args |-> EmptyDict, star |-> <<>>, extra |-> EmptyDict]

\* The inject call whose targets are being built (0 outside any build).
Builder(s) == IF s.building = <<>> THEN 0 ELSE Peek(s.building)

\* Mutant of JunkieErrorFor: the path is listed from the innermost factory.
JunkieErrorInnermostFirst(s, why, subj, fac) ==
    [kind |-> "JunkieError", why |-> why, subj |-> subj, fac |-> fac,
     path |-> [i \in 1..Len(s.instantiation_stack) |->
                  s.instantiation_stack[Len(s.instantiation_stack) + 1 - i]]]

\* raise JunkieError(f"{self._instantiation_stack}" + ...): the message
\* quotes subj and, in some messages, a factory as well.  _InstantiationStack
\* .__str__ lists the stack from its bottom, one more space per level.
JunkieErrorFor(s, why, subj, fac) ==
    [kind |-> "JunkieError", why |-> why, subj |-> subj, fac |-> fac,
     path |-> s.instantiation_stack]
JunkieError(s, why, subj) == JunkieErrorFor(s, why, subj, "")
Raise(s, e) == [s EXCEPT !.err = e]

\* The Junkie's fields and the heaps as one record, threaded through a build.
St ==
    [context |-> context, frames |-> frames, instances_by_name |-> instances_by_name,
     instances_by_name_stack |-> instances_by_name_stack, exit_stacks |-> exit_stacks,
     exit_stack |-> exit_stack, instantiation_stack |-> instantiation_stack,
     cycle_detection_instance_set |-> cycle_detection_instance_set, insts |-> insts,
     calls |-> calls, acquired |-> acquired, released |-> released,
     building |-> <<>>, log |-> <<>>, ret |-> Plain(0), tup |-> <<>>, bare |-> FALSE,
     args |-> EmptyArgs, err |-> NoErr]

----------------------------------------------------------------------------------------------------------------------------------------
(* The build: Junkie._build_instance and the methods it calls *)

RECURSIVE BuildInstance(_, _), BuildTuple(_, _, _, _), BuildByInstanceName(_, _)
RECURSIVE BuildByFactoryFunction(_, _, _), BuildParameters(_, _, _, _)
RECURSIVE CallFactory(_, _, _, _), EnterContext(_, _, _)
RECURSIVE InjectEnter(_, _), InjectExit(_, _, _), ExitStackExit(_, _, _)

\* Statement sequencing: Only({B(s1) : s1 \in {A}}) is the state in which B
\* ends when it starts in the state s1 in which A ended.
Only(S) == CHOOSE r \in S : TRUE

\* No exception is propagating.
Ok(s) == s.err = NoErr

\* A new object on the heap, returned by factory f called with the bound
\* arguments b; s.ret refers to it.
NewInst(s, f, instance_name, b, product) ==
    [s EXCEPT !.insts = Append(@, [fac |-> f, args |-> b.args, star |-> b.star,
                                   extra |-> b.extra, product |-> product,
                                   owner |-> Builder(s)]),
              !.ret = Inst(Len(s.insts) + 1),
              !.log = Append(@, Event("return", f, instance_name, Len(s.insts) + 1,
                                      Builder(s)))]

\* instance_name in self._instances_by_name
Bound(s, instance_name) == instance_name \in DOMAIN s.frames[s.instances_by_name]

\* Mutant of NewScope: the new scope starts empty.
NewScopeEmpty(s) == EmptyDict

\* self._instances_by_name_stack.peek().copy()
NewScope(s) == s.frames[Peek(s.instances_by_name_stack)]

\* Mutant of BindInstance: the built instance is not bound.
BindInstanceNever(s, instance_name) == s

\* if instance_name is not None: self._instances_by_name[instance_name] = instance
BindInstance(s, instance_name) ==
    IF instance_name # NoName
    THEN [s EXCEPT !.frames[s.instances_by_name] = Bind(@, instance_name, s.ret),
                   !.calls[Builder(s)].bindings = Bind(@, instance_name, s.ret)]
    ELSE s

\* Mutant of CycleError: the error names the factory under construction.
CycleErrorNamesTop(s, factory_function) ==
    JunkieError(s, "Dependency cycle", Peek(s.instantiation_stack))

\* JunkieError(... f'Dependency cycle detected with "{get_factory_name(factory_function)}()"')
CycleError(s, factory_function) == JunkieError(s, "Dependency cycle", factory_function)

\* Mutant of BuildInstance: a factory target is memoized under the factory.
BuildInstanceMemoized(s, name_or_factory) ==
    IF name_or_factory.kind = "name"
    THEN BuildByInstanceName(s, name_or_factory.id)
    ELSE IF Bound(s, name_or_factory.id)
    THEN [s EXCEPT !.ret = s.frames[s.instances_by_name][name_or_factory.id]]
    ELSE BuildByFactoryFunction(s, name_or_factory.id, name_or_factory.id)

\* Mutant of BuildInstance: a factory target is built through a registry
\* name mapped to that factory, when there is one.
BuildInstanceByRegistry(s, name_or_factory) ==
    LET names == {n \in DOMAIN s.context : s.context[n].callable
                                           /\ s.context[n].fac = name_or_factory.id}
    IN  IF name_or_factory.kind = "name"
        THEN BuildByInstanceName(s, name_or_factory.id)
        ELSE IF names # {}
        THEN BuildByInstanceName(s, CHOOSE n \in names : TRUE)
        ELSE BuildByFactoryFunction(s, name_or_factory.id, NoName)

\* Mutant of BuildTarget: whatever is no string is taken for a value.
BuildTargetLenient(s, name_or_factory) ==
    IF name_or_factory.kind = "name"
    THEN BuildByInstanceName(s, name_or_factory.id)
    ELSE IF name_or_factory.kind = "factory"
    THEN BuildByFactoryFunction(s, name_or_factory.id, NoName)
    ELSE [s EXCEPT !.ret = Plain(0)]

\* Junkie._build_instance, lines 81-89
BuildTarget(s, name_or_factory) ==
    IF name_or_factory.kind = "name"
    THEN BuildByInstanceName(s, name_or_factory.id)
    ELSE IF name_or_factory.kind = "factory"
    THEN BuildByFactoryFunction(s, name_or_factory.id, NoName)
    ELSE Raise(s, JunkieError(s, "Unknown type", name_or_factory.id))

\* Junkie._build_instance
BuildInstance(s, name_or_factory) ==
    BuildTarget(Log(s, Event("target", "", name_or_factory.id, 0, Builder(s))),
                name_or_factory)

\* Mutant of BuildTuple: each instance is put in front of the earlier ones.
BuildTupleInFront(s, names_and_factories, i, instances) ==
    IF i > Len(names_and_factories)
    THEN [s EXCEPT !.ret = Plain(0), !.tup = instances, !.bare = FALSE]
    ELSE Only({ IF ~Ok(s1) THEN s1
                ELSE BuildTuple(s1, names_and_factories, i + 1, <<s1.ret>> \o instances) :
                s1 \in {BuildInstance(s, names_and_factories[i])} })

\* Junkie._build_tuple: the loop from target i on, `instances` so far.
BuildTuple(s, names_and_factories, i, instances) ==
    IF i > Len(names_and_factories)
    THEN [s EXCEPT !.ret = Plain(0), !.tup = instances, !.bare = FALSE]
    ELSE Only({ IF ~Ok(s1) THEN s1
                ELSE BuildTuple(s1, names_and_factories, i + 1, Append(instances, s1.ret)) :
                s1 \in {BuildInstance(s, names_and_factories[i])} })

\* Mutant of BuildByInstanceName: the registry is consulted before the scope.
BuildByInstanceNameRegistryFirst(s, instance_name) ==
    IF instance_name \in DOMAIN s.context
    THEN LET value == s.context[instance_name]
         IN  IF value.callable
             THEN BuildByFactoryFunction(s, value.fac, instance_name)
             ELSE [s EXCEPT !.ret = value.val]
    ELSE IF Bound(s, instance_name)
    THEN [s EXCEPT !.ret = s.frames[s.instances_by_name][instance_name]]
    ELSE Raise(s, JunkieError(s, "Unable to find", instance_name))

\* Junkie._build_by_instance_name
BuildByInstanceName(s, instance_name) ==
    IF Bound(s, instance_name)
    THEN [s EXCEPT !.ret = s.frames[s.instances_by_name][instance_name]]
    ELSE IF instance_name \in DOMAIN s.context
    THEN LET value == s.context[instance_name]
         IN  IF value.callable
             THEN BuildByFactoryFunction(s, value.fac, instance_name)
             ELSE [s EXCEPT !.ret = value.val]
    ELSE Raise(s, JunkieError(s, "Unable to find", instance_name))

\* Mutant of IsBuiltin: no type is taken for a built-in type.
IsBuiltinNever(factory_function) == FALSE

\* factory_function in BUILTINS
IsBuiltin(factory_function) == factory_function \in BUILTINS

\* Junkie._build_by_factory_function, lines 118-119: the factory is entered
\* in the cycle-detection set and pushed on the instantiation stack.
Begin(s, factory_function, instance_name) ==
    [s EXCEPT !.cycle_detection_instance_set = @ \cup {factory_function},
              !.instantiation_stack = Append(@, factory_function),
              !.log = Append(@, Event("begin", factory_function, instance_name,
                                      0, Builder(s)))]

\* An end that forgets line 140: the factory stays in the cycle-detection set.
EndKeepSet(s, factory_function, instance_name) ==
    [s EXCEPT !.instantiation_stack = Pop(@),
              !.log = Append(@, Event("end", factory_function, instance_name,
                                      s.ret.id, Builder(s)))]

\* Junkie._build_by_factory_function, lines 139-140.
End(s, factory_function, instance_name) ==
    [s EXCEPT !.instantiation_stack = Pop(@),
              !.cycle_detection_instance_set = @ \ {factory_function},
              !.log = Append(@, Event("end", factory_function, instance_name,
                                      s.ret.id, Builder(s)))]

\* Mutant of AfterCall: the product is bound and returned as the factory
\* returned it.
AfterCallRaw(s3, factory_function, instance_name) ==
    End(BindInstance(s3, instance_name), factory_function, instance_name)

\* Junkie._build_by_factory_function, lines 129-142: the product is entered
\* when it is a context manager, bound when it has a name, and returned.
AfterCall(s3, factory_function, instance_name) ==
    Only({ IF ~Ok(s4) THEN s4
           ELSE End(BindInstance(s4, instance_name), factory_function, instance_name) :
           s4 \in {IF s3.insts[s3.ret.id].product \in {"res", "resx", "gen", "cmnest", "cmlist"}
                   THEN EnterContext(s3, s3.exit_stack, s3.ret.id)
                   ELSE s3} })

\* A cycle check that only looks once the path is three factories deep.
InCycleLate(s, factory_function) ==
    /\ factory_function \in s.cycle_detection_instance_set
    /\ Len(s.instantiation_stack) >= 3

\* Junkie._build_by_factory_function, line 112
InCycle(s, factory_function) == factory_function \in s.cycle_detection_instance_set

\* Junkie._build_by_factory_function
BuildByFactoryFunction(s0, factory_function, instance_name) ==
    Only({
        IF IsBuiltin(factory_function)
        THEN Raise(s, JunkieErrorFor(s, "builtin type", instance_name, factory_function))
        ELSE IF InCycle(s, factory_function)
        THEN Raise(s, CycleError(s, factory_function))
        ELSE Only({
            IF ~Ok(s2) THEN s2
            ELSE Only({ IF ~Ok(s3) THEN s3
                        ELSE AfterCall(s3, factory_function, instance_name) :
                        s3 \in {CallFactory(s2, factory_function, instance_name, s2.args)} }) :
            s2 \in {BuildParameters(Begin(s, factory_function, instance_name),
                                    factory_function, 1, EmptyArgs)} }) :
        s \in {Log(s0, Event("request", factory_function, instance_name, 0, Builder(s0)))} })

\* Mutant of Decide: a callable annotation is preferred to a default.
DecideAnnotationFirst(s, p) ==
    IF Bound(s, p.name) \/ p.name \in DOMAIN s.context THEN "byname"
    ELSE IF p.kind \in {"VAR_POSITIONAL", "VAR_KEYWORD"} THEN "skip"
    ELSE IF p.ann # NoAnn THEN "annotation"
    ELSE IF p.hasDefault THEN "default"
    ELSE "unresolved"

\* Junkie._build_parameters, lines 160-183: where the value of parameter p
\* comes from.
Decide(s, p) ==
    IF Bound(s, p.name) \/ p.name \in DOMAIN s.context THEN "byname"
    ELSE IF p.kind \in {"VAR_POSITIONAL", "VAR_KEYWORD"} THEN "skip"
    ELSE IF p.hasDefault THEN "default"
    ELSE IF p.ann # NoAnn THEN "annotation"
    ELSE "unresolved"

\* Junkie._build_parameters, lines 185-201: the value resolved for
\* parameter p is put where the kind of p says.
Place(args, p, value) ==
    LET item == [name |-> p.name, val |-> value] IN
    IF p.kind = "POSITIONAL_ONLY"
    THEN [args EXCEPT !.positional_params = Append(@, item)]
    ELSE IF p.kind = "POSITIONAL_OR_KEYWORD"
    THEN IF args.positional_params_finished
         THEN [args EXCEPT !.keyword_params = Append(@, item)]
         ELSE [args EXCEPT !.positional_params = Append(@, item)]
    ELSE IF p.kind = "VAR_POSITIONAL"
    THEN [args EXCEPT !.args = value]
    ELSE IF p.kind = "KEYWORD_ONLY"
    THEN [args EXCEPT !.keyword_params = Append(@, item)]
    ELSE [args EXCEPT !.kwargs = value]

\* Mutant of BuildByAnnotation: the instance is built under no name.
BuildByAnnotationUnnamed(s, p) == BuildByFactoryFunction(s, p.ann, NoName)

\* Junkie._build_parameters, line 177
BuildByAnnotation(s, p) == BuildByFactoryFunction(s, p.ann, p.name)

\* Junkie._build_parameters: the loop from parameter i on; `args` holds the
\* arguments collected so far.
BuildParameters(s, factory_function, i, args) ==
    LET params == Factories[factory_function].params IN
    IF i > Len(params)
    THEN [s EXCEPT !.args = args]
    ELSE
    LET p == params[i]
        how == Decide(s, p)
        s0 == Log(s, Event(how, factory_function, p.name, 0, Builder(s)))
    IN
    IF how = "byname"
    THEN Only({ IF ~Ok(s1) THEN s1
                ELSE BuildParameters(s1, factory_function, i + 1, Place(args, p, s1.ret)) :
                s1 \in {BuildByInstanceName(s0, p.name)} })
    ELSE IF how = "skip"
    THEN BuildParameters(s0, factory_function, i + 1, args)
    ELSE IF how = "default"
    THEN BuildParameters(s0, factory_function, i + 1,
                         [args EXCEPT !.positional_params_finished = TRUE])
    ELSE IF how = "annotation"
    THEN Only({ IF ~Ok(s1) THEN s1
                ELSE BuildParameters(s1, factory_function, i + 1, Place(args, p, s1.ret)) :
                s1 \in {BuildByAnnotation(s0, p)} })
    ELSE Raise(s0, JunkieErrorFor(s0, "Unable to find parameter", p.name, factory_function))

\* A factory body `with _junkie.inject(*nest): pass` followed by the
\* construction of the product.
NestedBody(s1, factory_function, instance_name, args) ==
    Only({ IF ~Ok(s2) THEN s2
           ELSE Only({ IF ~Ok(s3) THEN s3
                       ELSE NewInst(s3, factory_function, instance_name, args,
                                    Factories[factory_function].product) :
                       s3 \in {InjectExit(s2, Len(s1.calls) + 1, NoErr)} }) :
           s2 \in {InjectEnter(s1, Factories[factory_function].nest)} })

\* The items of `*value` and the entries of `**value` in a call; a value
\* that is no iterable, or no mapping, makes the call raise TypeError.
IsIterable(s, value) ==
    \/ value.kind = "tuple"
    \/ value.kind = "inst" /\ s.insts[value.id].product = "tuple"
IsMapping(s, value) ==
    \/ value.kind = "dict"
    \/ value.kind = "inst" /\ s.insts[value.id].product = "dict"
Items(s, value) == IF value.kind = "tuple" THEN Tuples[value.id] ELSE Tuples[1]
Entries(s, value) == IF value.kind = "dict" THEN Dicts[value.id] ELSE Dicts[1]

Names(items) == {items[i].name : i \in DOMAIN items}
Values(items) == [i \in DOMAIN items |-> items[i].val]
ValueOf(items, n) == items[CHOOSE i \in DOMAIN items : items[i].name = n].val
Min(a, b) == IF a < b THEN a ELSE b

\* Python's binding of the arguments of a call to the parameters `params` of
\* the callee: `pos` are the positional arguments in order, `kw` the keyword
\* arguments.  Positional arguments fill the positional parameters from the
\* left and overflow into *args; keyword arguments go to the parameter of
\* their name, or into **kwargs; a parameter left without argument holds its
\* default.  ok is FALSE where Python raises TypeError.
Bind2(params, pos, kw) ==
    LET IsSlot(q) == q.kind \in {"POSITIONAL_ONLY", "POSITIONAL_OR_KEYWORD"}
        slots == SelectSeq(params, IsSlot)
        filled == {slots[i].name : i \in 1..Min(Len(pos), Len(slots))}
        index(n) == CHOOSE i \in DOMAIN slots : slots[i].name = n
        named == {i \in DOMAIN params : params[i].kind \notin {"VAR_POSITIONAL", "VAR_KEYWORD"}}
        keywordable == {params[i].name : i \in {j \in named : params[j].kind # "POSITIONAL_ONLY"}}
        hasStar == \E i \in DOMAIN params : params[i].kind = "VAR_POSITIONAL"
        hasKw == \E i \in DOMAIN params : params[i].kind = "VAR_KEYWORD"
        given(n) == n \in filled \/ (n \in keywordable /\ n \in DOMAIN kw)
    IN  [ok |-> /\ Len(pos) > Len(slots) => hasStar
                /\ DOMAIN kw \cap filled \cap keywordable = {}
                /\ DOMAIN kw \ keywordable # {} => hasKw
                /\ \A i \in named : given(params[i].name) \/ params[i].hasDefault,
         args |-> [n \in {params[i].name : i \in named} |->
                      IF n \in filled THEN pos[index(n)]
                      ELSE IF n \in keywordable /\ n \in DOMAIN kw THEN kw[n]
                      ELSE Default],
         star |-> SubSeq(pos, Len(slots) + 1, Len(pos)),
         extra |-> [n \in DOMAIN kw \ keywordable |-> kw[n]]]

\* factory_function(*positional_params.values(), *args, **keyword_params,
\* **kwargs), line 127: what the callee holds when its body starts.
Received(s, factory_function, a) ==
    IF ~IsIterable(s, a.args) \/ ~IsMapping(s, a.kwargs)
       \/ Names(a.keyword_params) \cap DOMAIN Entries(s, a.kwargs) # {}
    THEN [Bound0 EXCEPT !.ok = FALSE]
    ELSE Bind2(Factories[factory_function].params,
               Values(a.positional_params) \o Items(s, a.args),
               [n \in Names(a.keyword_params) \cup DOMAIN Entries(s, a.kwargs) |->
                   IF n \in Names(a.keyword_params) THEN ValueOf(a.keyword_params, n)
                   ELSE Entries(s, a.kwargs)[n]])

\* instance = factory_function(...): the arguments are bound to the
\* parameters and the factory's body runs.
CallFactory(s, factory_function, instance_name, args) ==
    LET fac == Factories[factory_function] IN
    Only({ IF ~b.ok THEN Raise(s1, TypeError)
           ELSE IF fac.body = "raise" THEN Raise(s1, ValueError)
           ELSE IF fac.body = "nested"
           THEN NestedBody(s1, factory_function, instance_name, b)
           ELSE NewInst(s1, factory_function, instance_name, b, fac.product) :
           s1 \in {Log(s, Event("call", factory_function, instance_name, 0, Builder(s)))},
           b \in {Received(s, factory_function, args)} })

\* inject_list.wrapper, lines 260-263: the list that is yielded, a new
\* object whose items are what inject call k yielded.
WrapperYield(n1, f, k) ==
    IF n1.calls[k].bare
    THEN NewInst(n1, f, NoName, [Bound0 EXCEPT !.star = <<n1.calls[k].result[1]>>], "list")
    ELSE NewInst(n1, f, NoName, [Bound0 EXCEPT !.star = n1.calls[k].result], "list")

\* cm.__enter__() of the context manager cm.
Enter(s, cm) ==
    LET product == s.insts[cm].product
        f == s.insts[cm].fac
    IN  IF product \in {"res", "resx"} THEN [s EXCEPT !.ret = Inst(cm)]
        ELSE IF product = "gen" THEN NewInst(s, f, NoName, Bound0, "yielded")
        ELSE Only({ IF ~Ok(n1) THEN n1
                    ELSE IF product = "cmlist" THEN WrapperYield(n1, f, Len(s.calls) + 1)
                    ELSE [n1 EXCEPT !.ret = n1.calls[Len(s.calls) + 1].result[1]] :
                    n1 \in {InjectEnter(s, Factories[f].nest)} })

\* The ExitStack `es` loses the reference the call of enter_context held.
\* When its with statement has been left before and self._exit_stack is
\* another ExitStack by now, nothing refers to it any more: it is freed
\* with the callback pushed last, and the generator of a wrapper that
\* holds an inject open is closed, which raises GeneratorExit at its yield
\* and leaves that inject by it.  The value it yielded stays in use.
Dropped(s, es) ==
    IF /\ s.exit_stack # es
       /\ s.calls[es].state \in {"closed", "failed"}
       /\ Peek(s.exit_stacks[es]).call # 0
    THEN Only({ [s2 EXCEPT !.err = NoErr] :
                s2 \in {InjectExit([s EXCEPT !.exit_stacks[es] = Pop(@)],
                                   Peek(s.exit_stacks[es]).call, GeneratorExit)} })
    ELSE s

\* ExitStack.enter_context(cm) on the ExitStack `es`: cm.__enter__() runs,
\* then cm.__exit__ is pushed on `es`; the result of __enter__ is returned.
EnterContext(s, es, cm) ==
    LET callback == [inst |-> cm,
                     call |-> IF s.insts[cm].product \in {"cmnest", "cmlist"}
                              THEN Len(s.calls) + 1 ELSE 0]
    IN  Only({ IF ~Ok(s1) THEN s1
               ELSE Dropped([s1 EXCEPT !.exit_stacks[es] = Append(@, callback),
                                       !.acquired = Append(@, cm),
                                       !.log = Append(@, Event("enter", s.insts[cm].fac,
                                                               NoName, cm, Builder(s)))],
                            es) :
               s1 \in {Enter(s, cm)} })

\* One callback of an ExitStack runs: the __exit__ of a context manager.
\* That of a "cmnest" generator resumes it inside its own with statement.
\* err of the result is the exception in flight once the callback is done:
\* the one it raised, else `exc`.
RunCallback(s, es, cb, exc) ==
    Only({ IF cb.call # 0 THEN InjectExit(s1, cb.call, exc)
           ELSE IF s.insts[cb.inst].product = "resx"
           THEN [s1 EXCEPT !.err = ReleaseError(s.insts[cb.inst].fac)]
           ELSE [s1 EXCEPT !.err = exc] :
           s1 \in {[s EXCEPT !.released = Append(@, cb.inst),
                             !.log = Append(@, Event("exit", s.insts[cb.inst].fac, NoName,
                                                     cb.inst, es))]} })

\* ExitStack.__exit__(exc) of the ExitStack `es`: the callbacks run last in,
\* first out; none of them suppresses the exception, and the exception a
\* callback raises is passed to the remaining ones in place of `exc`.
ExitStackExit(s, es, exc) ==
    IF s.exit_stacks[es] = <<>>
    THEN [s EXCEPT !.err = exc]
    ELSE Only({ ExitStackExit(s2, es, s2.err) :
                s2 \in {RunCallback([s EXCEPT !.exit_stacks[es] = Pop(@)], es,
                                    Peek(s.exit_stacks[es]), exc)} })

\* Junkie.inject, lines 59-61: the with statement is entered with a new
\* ExitStack and the new scope is pushed.  k is the inject call; its
\* ExitStack is exit_stacks[k].
PushScope(s, names_and_factories, k) ==
    LET d == Len(s.frames) + 1
    IN  [s EXCEPT
          !.exit_stacks = Append(@, <<>>),
          !.exit_stack = k,
          !.frames = Append(@, NewScope(s)),
          !.instances_by_name = d,
          !.instances_by_name_stack = Append(@, d),
          !.calls = Append(@, [targets |-> names_and_factories, state |-> "building",
                               result |-> <<>>, bare |-> FALSE,
                               client |-> s.building = <<>>, by |-> Builder(s),
                               depth0 |-> Len(s.instances_by_name_stack),
                               live0 |-> s.instances_by_name,
                               bound0 |-> DOMAIN s.frames[s.instances_by_name],
                               frame0 |-> s.frames[s.instances_by_name],
                               bindings |-> EmptyDict]),
          !.building = Append(@, k),
          !.log = Append(@, Event("push", "", NoName, d, k))]

\* A pop that forgets line 69: the live dict stays the discarded frame.
PopScopeKeepLive(s, k) ==
    [s EXCEPT !.instances_by_name_stack = Pop(@),
              !.log = Append(@, Event("pop", "", NoName,
                                      Peek(s.instances_by_name_stack), k))]

\* Junkie.inject, lines 68-69: the scope is popped.
PopScope(s, k) ==
    [s EXCEPT !.instances_by_name_stack = Pop(@),
              !.instances_by_name = Peek(Pop(s.instances_by_name_stack)),
              !.log = Append(@, Event("pop", "", NoName,
                                      Peek(s.instances_by_name_stack), k))]

\* Junkie.inject, lines 63-66: the targets are built; s.tup holds what the
\* generator is about to yield.
BuildTargets(s, names_and_factories) ==
    IF Len(names_and_factories) = 1
    THEN Only({ [b EXCEPT !.tup = <<b.ret>>, !.bare = TRUE] :
                b \in {BuildInstance(s, names_and_factories[1])} })
    ELSE BuildTuple(s, names_and_factories, 1, <<>>)

\* Junkie.inject up to its yield: the with statement is entered, the scope
\* is pushed and the targets are built.  An error raised by the build leaves
\* through the with statement, whose ExitStack is unwound.
InjectEnter(s, names_and_factories) ==
    LET k == Len(s.calls) + 1 IN
    Only({ IF Ok(s2)
           THEN [s2 EXCEPT !.calls[k].state = "open", !.calls[k].result = s2.tup,
                           !.calls[k].bare = s2.bare, !.building = s.building]
           ELSE Only({ [s3 EXCEPT !.calls[k].state = "failed"] :
                       s3 \in {ExitStackExit([s2 EXCEPT !.building = s.building],
                                             k, s2.err)} }) :
           s2 \in {BuildTargets(PushScope(s, names_and_factories, k), names_and_factories)} })

\* Junkie.inject from its yield on.  exc = NoErr: the with-body finished, the
\* generator resumes, pops the scope and leaves the with statement.
\* Otherwise exc is thrown into the generator at the yield and leaves through
\* the with statement.
InjectExit(s, k, exc) ==
    IF exc = NoErr
    THEN Only({ [s2 EXCEPT !.calls[k].state = "closed"] :
                s2 \in {ExitStackExit(PopScope(s, k), k, NoErr)} })
    ELSE Only({ [s2 EXCEPT !.calls[k].state = "failed"] :
                s2 \in {ExitStackExit(s, k, exc)} })

----------------
(* The Junkie and its client *)

\* DependencyCycleChecker.__init__
CheckerInit ==
    /\ instance_stack = <<>>
    /\ checked = [op |-> "init", arg |-> "", ret |-> "", err |-> "", message |-> <<>>]

\* Context.__init__ without arguments
ContextInit ==
    /\ ctx_instances = EmptyDict
    /\ ctx_factories = EmptyDict
    /\ ctx_latest = EmptyDict
    /\ ctx_built = [target |-> "", ret |-> Plain(0), err |-> ""]

\* Junkie.__init__
Init ==
    /\ context = Bind(Registry, "_junkie", Value(JunkieSelf))
    /\ exit_stack = 0
    /\ exit_stacks = <<>>
    /\ frames = <<EmptyDict>>
    /\ instances_by_name = 1
    /\ instances_by_name_stack = <<1>>
    /\ instantiation_stack = <<>>
    /\ cycle_detection_instance_set = {}
    /\ insts = <<>>
    /\ calls = <<>>
    /\ withStack = <<>>
    /\ acquired = <<>>
    /\ released = <<>>
    /\ lastOp = [op |-> "init", call |-> 0, err |-> NoErr, log |-> <<>>]
    /\ junkies = <<>>
    /\ ContextInit
    /\ CheckerInit

\* The Junkie's fields and the heaps after an operation that ended in s.
Update(s) ==
    /\ context' = s.context
    /\ frames' = s.frames
    /\ instances_by_name' = s.instances_by_name
    /\ instances_by_name_stack' = s.instances_by_name_stack
    /\ exit_stacks' = s.exit_stacks
    /\ exit_stack' = s.exit_stack
    /\ instantiation_stack' = s.instantiation_stack
    /\ cycle_detection_instance_set' = s.cycle_detection_instance_set
    /\ insts' = s.insts
    /\ calls' = s.calls
    /\ acquired' = s.acquired
    /\ released' = s.released
    /\ UNCHANGED <<junkies, contextVars, checkerVars>>

ClientCalls == {k \in DOMAIN calls : calls[k].client}

\* `with junkie.inject(*targets) as ...:` is entered.  When the build fails
\* the error leaves the with statement and the client catches it there.
Inject(targets) ==
    /\ Cardinality(ClientCalls) < MaxInjects
    /\ Len(withStack) < MaxDepth
    /\ \E s0 \in {St} : \E s \in {InjectEnter(s0, targets)} :
           /\ Update(s)
           /\ withStack' = IF s.err = NoErr THEN Append(withStack, Len(calls) + 1)
                           ELSE withStack
           /\ lastOp' = [op |-> "inject", call |-> Len(calls) + 1, err |-> s.err,
                         log |-> s.log]

\* The body of the innermost with-block finishes.
ExitNormal ==
    /\ withStack # <<>>
    /\ \E s0 \in {St} : \E s \in {InjectExit(s0, Peek(withStack), NoErr)} :
           /\ Update(s)
           /\ withStack' = Pop(withStack)
           /\ lastOp' = [op |-> "exit", call |-> Peek(withStack), err |-> s.err,
                         log |-> s.log]

\* The body of the innermost with-block raises; the client catches the
\* exception outside that with-block.
ExitRaise ==
    /\ withStack # <<>>
    /\ \E s0 \in {St} : \E s \in {InjectExit(s0, Peek(withStack), BodyError)} :
           /\ Update(s)
           /\ withStack' = Pop(withStack)
           /\ lastOp' = [op |-> "raise", call |-> Peek(withStack), err |-> s.err,
                         log |-> s.log]

Next ==
    \/ \E targets \in TargetLists : Inject(targets)
    \/ ExitNormal
    \/ ExitRaise

Spec == Init /\ [][Next]_vars

\* Junkie.__init__ of the clients that exercise the parameter kinds.
ParamInit ==
    /\ context \in {Bind(r, "_junkie", Value(JunkieSelf)) : r \in ParamRegistries}
    /\ exit_stack = 0
    /\ exit_stacks = <<>>
    /\ frames = <<EmptyDict>>
    /\ instances_by_name = 1
    /\ instances_by_name_stack = <<1>>
    /\ instantiation_stack = <<>>
    /\ cycle_detection_instance_set = {}
    /\ insts = <<>>
    /\ calls = <<>>
    /\ withStack = <<>>
    /\ acquired = <<>>
    /\ released = <<>>
    /\ lastOp = [op |-> "init", call |-> 0, err |-> NoErr, log |-> <<>>]
    /\ junkies = <<>>
    /\ ContextInit
    /\ CheckerInit

\* `with junkie.inject(*targets) as ...:` of these clients.
ParamInject(targets) ==
    /\ Cardinality(ClientCalls) < MaxParamInjects
    /\ Inject(targets)

ParamNext ==
    \/ \E targets \in ParamTargetLists : ParamInject(targets)
    \/ ExitNormal
    \/ ExitRaise

ParamSpec == ParamInit /\ [][ParamNext]_vars

----------------------------------------------------------------------------
(* Junkie.extend and the Junkie objects it and other clients construct *)

MaxJunkies == 2

\* The mapping given to Junkie(...) by the clients that extend it.
ExtendRegistry ==
    [n \in {"var", "d", "jk"} |->
        CASE n = "var" -> Value(Plain(11))
          [] n = "d"   -> Factory("D")
          [] n = "jk"  -> Factory("Jk")]

ExtendTargetLists == { <<F("B")>>, <<N("d")>>, <<N("var"), N("jk")>>, <<N("_junkie")>> }

\* The mappings m of extend(m).
ExtendMaps ==
    { [n \in {"var"} |-> Plain(5)], [n \in {"a"} |-> Plain(5)], [n \in {"w"} |-> Plain(7)],
      [n \in {"w", "var"} |-> Plain(7)], [n \in {"_junkie"} |-> Plain(5)] }

\* Mutant of Duplicated: only the registry is searched for the names.
DuplicatedInRegistry(s, instances) == DOMAIN instances \cap DOMAIN s.context

\* instances.keys() & (self._instances_by_name.keys() | self._context.keys())
Duplicated(s, instances) ==
    DOMAIN instances \cap (DOMAIN s.frames[s.instances_by_name] \cup DOMAIN s.context)

\* JunkieError("Instances for names {} already exists".format(...))
ExtendError ==
    [kind |-> "JunkieError", why |-> "already exists", subj |-> "", fac |-> "", path |-> <<>>]

\* {**self, **instances}: the instances bound in the live scope of self,
\* then the given ones.
Merged(s, instances) ==
    LET live == s.frames[s.instances_by_name]
    IN  [n \in DOMAIN live \cup DOMAIN instances |->
            IF n \in DOMAIN instances THEN Value(instances[n]) ELSE Value(live[n])]

\* Junkie.extend: raises for duplicated names, else returns a new Junkie
\* made from Merged; __init__ of that Junkie adds its own "_junkie".
Extend(instances) ==
    /\ Len(junkies) < MaxJunkies
    /\ \E s \in {St} : \E dup \in {Duplicated(s, instances)} :
           IF dup # {}
           THEN /\ lastOp' = [op |-> "extend", call |-> 0, err |-> ExtendError, log |-> <<>>,
                              m |-> instances, names |-> dup]
                /\ UNCHANGED <<junkieVars, junkies, contextVars, checkerVars>>
           ELSE /\ junkies' = Append(junkies,
                                     [context |-> Bind(Merged(s, instances), "_junkie",
                                                       Value(JunkieRef(Len(junkies) + 1))),
                                      shared |-> FALSE, m |-> instances,
                                      registry0 |-> context])
                /\ lastOp' = [op |-> "extend", call |-> 0, err |-> NoErr, log |-> <<>>,
                              m |-> instances, names |-> {}]
                /\ UNCHANGED <<junkieVars, contextVars, checkerVars>>

\* Junkie.__init__ of a second `Junkie(mapping)` over the very mapping this
\* Junkie was constructed with: line 34 stores the new Junkie in it.
Construct ==
    /\ Len(junkies) < MaxJunkies
    /\ junkies' = Append(junkies, [context |-> EmptyDict, shared |-> TRUE, m |-> EmptyDict,
                                   registry0 |-> context])
    /\ context' = Bind(context, "_junkie", Value(JunkieRef(Len(junkies) + 1)))
    /\ lastOp' = [op |-> "construct", call |-> 0, err |-> NoErr, log |-> <<>>]
    /\ UNCHANGED <<frames, instances_by_name, instances_by_name_stack, exit_stacks, exit_stack,
                   instantiation_stack, cycle_detection_instance_set, insts, calls,
                   withStack, acquired, released, contextVars, checkerVars>>

\* Junkie.__init__ of the clients that extend.
ExtendInit ==
    /\ context = Bind(ExtendRegistry, "_junkie", Value(JunkieSelf))
    /\ exit_stack = 0
    /\ exit_stacks = <<>>
    /\ frames = <<EmptyDict>>
    /\ instances_by_name = 1
    /\ instances_by_name_stack = <<1>>
    /\ instantiation_stack = <<>>
    /\ cycle_detection_instance_set = {}
    /\ insts = <<>>
    /\ calls = <<>>
    /\ withStack = <<>>
    /\ acquired = <<>>
    /\ released = <<>>
    /\ lastOp = [op |-> "init", call |-> 0, err |-> NoErr, log |-> <<>>]
    /\ junkies = <<>>
    /\ ContextInit
    /\ CheckerInit

ExtendNext ==
    \/ \E targets \in ExtendTargetLists : Inject(targets)
    \/ ExitNormal
    \/ ExitRaise
    \/ \E instances \in ExtendMaps : Extend(instances)
    \/ Construct

ExtendSpec == ExtendInit /\ [][ExtendNext]_vars

\* The mapping Junkie number o resolves names in.
ContextOf(o) == IF junkies[o].shared THEN context ELSE junkies[o].context

\* A Junkie over `mapping` on which nothing has been injected yet.
Fresh(mapping) ==
    [St EXCEPT !.context = mapping, !.frames = <<EmptyDict>>, !.instances_by_name = 1,
               !.instances_by_name_stack = <<1>>, !.exit_stacks = <<>>, !.exit_stack = 0,
               !.instantiation_stack = <<>>, !.cycle_detection_instance_set = {},
               !.calls = <<>>]

----------------------------------------------------------------------------
(* Context (src/junkie/context.py) *)

\* A function given as an entry, and the object a call of it returns.
Function(f) == [kind |-> "function", id |-> f]
ProductOf(function) == [kind |-> "product", id |-> function.id]

\* An entry of a mapping given to the Context: a value and callable(value).
Entry(value) == [callable |-> value.kind = "function", val |-> value]

ContextNames == {"n", "m"}
ContextEntries == {Entry(Plain(1)), Entry(Plain(2)), Entry(Function(1)), Entry(Function(2))}

\* The mappings given to add, add_instances and add_factories.
ContextMaps == UNION {[S -> ContextEntries] : S \in (SUBSET ContextNames) \ {{}}}

\* dict[k] = m[k] for the keys K of m
Updated(dict, m, K) ==
    [k \in DOMAIN dict \cup K |-> IF k \in K THEN m[k].val ELSE dict[k]]

Callables(m) == {k \in DOMAIN m : m[k].callable}

\* The most recent entry of each name after a call that gave m.
Latest(m) == [k \in DOMAIN ctx_latest \cup DOMAIN m |->
                 IF k \in DOMAIN m THEN m[k] ELSE ctx_latest[k]]

\* The Junkie is not touched by the operations of a Context.
ContextOp(op) ==
    /\ lastOp' = [op |-> op, call |-> 0, err |-> NoErr, log |-> <<>>]
    /\ UNCHANGED <<junkieVars, junkies, checkerVars>>

\* Context.add(m): callables go to _factories, all else to _instances.
Add(m) ==
    /\ ctx_factories' = Updated(ctx_factories, m, Callables(m))
    /\ ctx_instances' = Updated(ctx_instances, m, DOMAIN m \ Callables(m))
    /\ ctx_latest' = Latest(m)
    /\ UNCHANGED ctx_built
    /\ ContextOp("add")

\* Context.add_instances(m)
AddInstances(m) ==
    /\ ctx_instances' = Updated(ctx_instances, m, DOMAIN m)
    /\ ctx_latest' = Latest(m)
    /\ UNCHANGED <<ctx_factories, ctx_built>>
    /\ ContextOp("add_instances")

\* Context.add_factories(m), m: Dict[str, Callable]
AddFactories(m) ==
    /\ Callables(m) = DOMAIN m
    /\ ctx_factories' = Updated(ctx_factories, m, DOMAIN m)
    /\ ctx_latest' = Latest(m)
    /\ UNCHANGED <<ctx_instances, ctx_built>>
    /\ ContextOp("add_factories")

\* Context._build_element_by_name; _call of a function without parameters
\* whose product has no __enter__.
BuildElementByName(target_name) ==
    IF target_name \in DOMAIN ctx_instances
    THEN [target |-> target_name, ret |-> ctx_instances[target_name], err |-> ""]
    ELSE IF target_name \in DOMAIN ctx_factories
    THEN [target |-> target_name, ret |-> ProductOf(ctx_factories[target_name]), err |-> ""]
    ELSE [target |-> target_name, ret |-> Plain(0), err |-> "Not found"]

\* `with context.build(target_name) as instance: pass`
Build(target_name) ==
    /\ ctx_built' = BuildElementByName(target_name)
    /\ UNCHANGED <<ctx_instances, ctx_factories, ctx_latest>>
    /\ ContextOp("build")

ContextNext ==
    \/ \E m \in ContextMaps : Add(m)
    \/ \E m \in ContextMaps : AddInstances(m)
    \/ \E m \in ContextMaps : AddFactories(m)
    \/ \E target_name \in ContextNames : Build(target_name)

ContextSpec == Init /\ [][ContextNext]_vars

----------------------------------------------------------------------------
(* DependencyCycleChecker (src/junkie/dependency_cycle_checker.py) *)

CheckerNames == {"a", "b", "c", "d"}

\* "\n{indentation}-> {name}" for each name of call_path, two more spaces of
\* indentation per name.
CycleMessage(call_path) ==
    [number \in 1..Len(call_path) |->
        [indentation |-> 2 * (number - 1), name |-> call_path[number]]]

\* Mutant of Push: the name is put on the stack without a look at the stack.
PushUnchecked(instance_name) ==
    /\ instance_stack' = Append(instance_stack, instance_name)
    /\ checked' = [op |-> "push", arg |-> instance_name, ret |-> "", err |-> "",
                   message |-> <<>>]
    /\ lastOp' = [op |-> "push", call |-> 0, err |-> NoErr, log |-> <<>>]
    /\ UNCHANGED <<junkieVars, junkies, contextVars>>

\* DependencyCycleChecker.push
Push(instance_name) ==
    /\ IF \E i \in DOMAIN instance_stack : instance_stack[i] = instance_name
       THEN /\ checked' = [op |-> "push", arg |-> instance_name, ret |-> "",
                           err |-> "DependencyCycleError",
                           message |-> CycleMessage(Append(instance_stack, instance_name))]
            /\ UNCHANGED instance_stack
       ELSE /\ instance_stack' = Append(instance_stack, instance_name)
            /\ checked' = [op |-> "push", arg |-> instance_name, ret |-> "", err |-> "",
                           message |-> <<>>]
    /\ lastOp' = [op |-> "push", call |-> 0, err |-> NoErr, log |-> <<>>]
    /\ UNCHANGED <<junkieVars, junkies, contextVars>>

\* DependencyCycleChecker.pop: OrderedDict.popitem() takes the last item.
PopName ==
    /\ IF Len(instance_stack) = 0
       THEN /\ checked' = [op |-> "pop", arg |-> "", ret |-> "", err |-> "IndexError",
                           message |-> <<>>]
            /\ UNCHANGED instance_stack
       ELSE /\ instance_stack' = Pop(instance_stack)
            /\ checked' = [op |-> "pop", arg |-> "", ret |-> Peek(instance_stack),
                           err |-> "", message |-> <<>>]
    /\ lastOp' = [op |-> "pop", call |-> 0, err |-> NoErr, log |-> <<>>]
    /\ UNCHANGED <<junkieVars, junkies, contextVars>>

CheckerNext ==
    \/ \E instance_name \in CheckerNames : Push(instance_name)
    \/ PopName

CheckerSpec == Init /\ [][CheckerNext]_vars

----------------------------------------------------------------------------
(* Clients whose resources fail to release *)

ReleaseRegistry ==
    [n \in {"r1", "r2", "r3", "d"} |->
        CASE n = "r1" -> Factory("R1")
          [] n = "r2" -> Factory("R2")
          [] n = "r3" -> Factory("R3")
          [] n = "d"  -> Factory("D")]

ReleaseTargetLists == { <<N("r3")>>, <<N("r1")>>, <<N("d")>>, <<N("d"), N("r2")>>, <<N("r1"), N("d")>> }

\* Junkie.__init__ of these clients.
ReleaseInit ==
    /\ context = Bind(ReleaseRegistry, "_junkie", Value(JunkieSelf))
    /\ exit_stack = 0
    /\ exit_stacks = <<>>
    /\ frames = <<EmptyDict>>
    /\ instances_by_name = 1
    /\ instances_by_name_stack = <<1>>
    /\ instantiation_stack = <<>>
    /\ cycle_detection_instance_set = {}
    /\ insts = <<>>
    /\ calls = <<>>
    /\ withStack = <<>>
    /\ acquired = <<>>
    /\ released = <<>>
    /\ lastOp = [op |-> "init", call |-> 0, err |-> NoErr, log |-> <<>>]
    /\ junkies = <<>>
    /\ ContextInit
    /\ CheckerInit

ReleaseNext ==
    \/ \E targets \in ReleaseTargetLists : Inject(targets)
    \/ ExitNormal
    \/ ExitRaise

ReleaseSpec == ReleaseInit /\ [][ReleaseNext]_vars

----------------------------------------------------------------------------
(* The Junkie as a Mapping *)

KeyError == [kind |-> "KeyError", id |-> 0]

\* Junkie.__contains__, __getitem__, __iter__ and __len__
Contains(item) == item \in DOMAIN frames[instances_by_name]
GetItem(item) ==
    IF item \in DOMAIN frames[instances_by_name] THEN frames[instances_by_name][item]
    ELSE KeyError
Iter == DOMAIN frames[instances_by_name]
LenOf == Cardinality(DOMAIN frames[instances_by_name])

----------------
(* Vocabulary of the properties *)

Reverse(seq) == [i \in 1..Len(seq) |-> seq[Len(seq) + 1 - i]]
Restrict(seq, S) == LET In(x) == x \in S IN SelectSeq(seq, In)
Count(seq, x) == Cardinality({i \in DOMAIN seq : seq[i] = x})

\* The scoped resources acquired while the targets of inject call k were built.
Owned(k) == {i \in DOMAIN insts : insts[i].owner = k /\ Count(acquired, i) > 0}

\* The objects released by the last operation, in order.
ReleasedNow ==
    LET IsExit(e) == e.ev = "exit"
        exits == SelectSeq(lastOp.log, IsExit)
    IN  [i \in 1..Len(exits) |-> exits[i].inst]

LastCall == lastOp.call
InjectOk == lastOp.op = "inject" /\ lastOp.err = NoErr
InjectFailed == lastOp.op = "inject" /\ lastOp.err # NoErr
\* An inject call that was open has just been left.
Left == lastOp.op \in {"exit", "raise"}

\* The events of the last operation that inject call k logged while building.
EventsOf(k, ev) == {i \in DOMAIN lastOp.log : lastOp.log[i].ev = ev /\ lastOp.log[i].call = k}

----------------------------------------------------------------------------
(* Teardown *)

\* C1: when an inject context is left, normally or by an exception of the
\* with-body, the resources acquired while its targets were built are
\* released then, each exactly once, in the reverse of the order in which
\* they were acquired.
C1_TeardownReverseOrder ==
    Left =>
        LET own == Owned(LastCall)
        IN  /\ Restrict(released, own) = Reverse(Restrict(acquired, own))
            /\ Restrict(ReleasedNow, own) = Restrict(released, own)

\* C6: when the build of an inject call fails, every resource that call had
\* acquired is released, in reverse order of acquisition, in the same
\* operation, before the error reaches the caller.
C6_ReleasedOnBuildFailure ==
    InjectFailed =>
        LET own == Owned(LastCall)
        IN  Restrict(ReleasedNow, own) = Reverse(Restrict(acquired, own))

\* C8: every resource acquired while the targets of an inject call were
\* built has been released exactly once when that call's context has been
\* left, also when a factory on the build path opened an inject of its own.
C8_ReleasedOnceAfterExit ==
    \A k \in DOMAIN calls :
        calls[k].state \in {"closed", "failed"} =>
            \A i \in Owned(k) : Count(released, i) = 1

----------------------------------------------------------------------------
(* State left behind by a failure *)

\* C7: after an inject call has ended by an error (of the build or of the
\* with-body) the scope stack is as deep as before the call and the live
\* dict is the one that was live before the call.
C7_ScopeRestoredAfterError ==
    (InjectFailed \/ lastOp.op = "raise") =>
        /\ Len(instances_by_name_stack) = calls[LastCall].depth0
        /\ instances_by_name = calls[LastCall].live0

\* C5: an inject whose only target is a factory that raises its own exception
\* invokes that factory and ends with the factory's exception, also when an
\* earlier inject of the same target failed in the same way.
C5_FactoryErrorAgain ==
    \A name \in DOMAIN context :
        ( /\ lastOp.op = "inject"
          /\ calls[LastCall].targets = <<N(name)>>
          /\ context[name].callable
          /\ Factories[context[name].fac].body = "raise"
          /\ ~Bound(St, name) ) =>
            /\ lastOp.err = ValueError
            /\ \E i \in EventsOf(LastCall, "call") : lastOp.log[i].fac = context[name].fac

----------------------------------------------------------------------------
(* Memoization *)

FactoryNames == {n \in DOMAIN context : context[n].callable}
Targets(k) == calls[k].targets
Positions(k, target) == {p \in DOMAIN calls[k].result : Targets(k)[p] = target}

\* C2: an inject of name n made while an earlier inject of n is still open
\* yields the instance the earlier one yielded, without invoking the factory
\* of n and without acquiring that instance again.
C2_MemoizedAcrossNestedScopes ==
    InjectOk =>
        \A j \in 1..(LastCall - 1) : \A n \in FactoryNames :
            calls[j].state = "open" =>
                \A p \in Positions(j, N(n)) : \A q \in Positions(LastCall, N(n)) :
                    /\ calls[LastCall].result[q] = calls[j].result[p]
                    /\ \A i \in DOMAIN lastOp.log :
                           ~(lastOp.log[i].ev = "call" /\ lastOp.log[i].name = n)
                    /\ Count(acquired, calls[j].result[p].id) <= 1

C2_Witness ==
    /\ InjectOk
    /\ \E j \in 1..(LastCall - 1) : \E n \in FactoryNames :
           /\ calls[j].state = "open"
           /\ Positions(j, N(n)) # {}
           /\ Positions(LastCall, N(n)) # {}
           /\ Count(acquired, calls[j].result[CHOOSE p \in Positions(j, N(n)) : TRUE].id) = 1

\* The invocations of a factory under name d by inject call k in the last
\* operation, the objects built then that have a parameter d, and the
\* values handed out for d: to those objects and as a target of the call.
CallsUnder(k, d) == {i \in EventsOf(k, "call") : lastOp.log[i].name = d}
Dependents(k, d) ==
    {lastOp.log[i].inst : i \in {i \in EventsOf(k, "return") :
                                    d \in DOMAIN insts[lastOp.log[i].inst].args}}
Given(k, d) ==
    {insts[i].args[d] : i \in Dependents(k, d)}
        \cup {calls[k].result[p] : p \in Positions(k, N(d))}
HoldsOpen(k) == \E j \in DOMAIN calls : j > k /\ calls[j].state = "open"

C9_FactoryTargetReused ==
    InjectOk =>
        \A j \in 1..(LastCall - 1) : \A f \in DOMAIN Factories :
            (calls[j].state = "open" /\ Factories[f].params = <<>>) =>
                \A p \in Positions(j, F(f)) : \A q \in Positions(LastCall, F(f)) :
                    calls[LastCall].result[q] = calls[j].result[p]

\* C9, amended: every inject of a parameterless factory f yields a new
\* instance, whether or not a scope opened by an earlier inject of f is
\* still open.
C9_FactoryTargetFresh ==
    \A j, k \in DOMAIN calls : \A f \in DOMAIN Factories :
        Factories[f].params = <<>> =>
            \A p \in Positions(j, F(f)) : \A q \in Positions(k, F(f)) :
                <<j, p>> # <<k, q>> => calls[j].result[p] # calls[k].result[q]

C9_Witness ==
    /\ InjectOk
    /\ \E j \in 1..(LastCall - 1) : \E f \in DOMAIN Factories :
           /\ calls[j].state = "open"
           /\ Factories[f].params = <<>>
           /\ Positions(j, F(f)) # {}
           /\ Positions(LastCall, F(f)) # {}

\* C10: in one inject, a name asked twice yields one instance, two names
\* mapped to the same factory yield two instances, and a factory given as
\* target yields an instance that is bound under no name of that factory.
C10_KeyedByName ==
    InjectOk =>
        LET T == Targets(LastCall)
            R == calls[LastCall].result
            live == frames[instances_by_name]
        IN  \A p, q \in DOMAIN R :
                /\ (T[p].kind = "name" /\ T[p] = T[q]) => R[p] = R[q]
                /\ ( /\ T[p].kind = "name" /\ T[q].kind = "name" /\ T[p] # T[q]
                     /\ T[p].id \in FactoryNames /\ T[q].id \in FactoryNames
                     /\ context[T[p].id].fac = context[T[q].id].fac ) => R[p] # R[q]
                /\ T[q].kind = "factory" =>
                       \A n \in FactoryNames \cap DOMAIN live :
                           context[n].fac = T[q].id => live[n] # R[q]

C10_Witness ==
    /\ InjectOk
    /\ Targets(LastCall) = <<N("a"), F("A"), N("a")>>
    /\ \E j \in 1..(LastCall - 1) :
           calls[j].state = "open" /\ Targets(j) = <<N("a"), N("b")>>

----------------------------------------------------------------------------
(* Cycle detection *)

\* Factory f, requested by event i of the last operation, was then under
\* construction: it had begun and not ended in that operation.
UnderConstruction(i) ==
    LET log == lastOp.log
        n(ev) == Cardinality({j \in 1..(i - 1) : log[j].ev = ev /\ log[j].fac = log[i].fac})
    IN  n("begin") > n("end")

CyclicRequests ==
    {i \in DOMAIN lastOp.log : lastOp.log[i].ev = "request" /\ UnderConstruction(i)}

\* C4: when a factory is requested while it is under construction, under
\* whatever name or as a reference, the inject fails with a dependency-cycle
\* error naming that factory, and nothing is requested, begun or invoked
\* after that request.
C4_CycleDetected ==
    \A i \in CyclicRequests :
        /\ lastOp.op = "inject"
        /\ lastOp.err.kind = "JunkieError"
        /\ lastOp.err.why = "Dependency cycle"
        /\ lastOp.err.subj = lastOp.log[i].fac
        /\ \A j \in DOMAIN lastOp.log :
               j > i => lastOp.log[j].ev \notin {"request", "begin", "call", "return", "enter"}

C4_Witness ==
    \E i \in CyclicRequests : \E j \in 1..(i - 1) :
        /\ lastOp.log[j].ev = "begin"
        /\ lastOp.log[j].fac = lastOp.log[i].fac
        /\ lastOp.log[j].name # lastOp.log[i].name

----------------------------------------------------------------------------
(* Scope isolation *)

\* C11: after an inject has exited normally, the names the Junkie contains
\* and the instances bound to them are exactly those of before that inject
\* started, and the dict that was live then has not been written to.
C11_ScopeIsolatedAfterExit ==
    lastOp.op = "exit" =>
        /\ frames[instances_by_name] = calls[LastCall].frame0
        /\ frames[calls[LastCall].live0] = calls[LastCall].frame0

----------------------------------------------------------------------------
(* Targets *)

\* The events of the last operation that announce a target of inject call
\* k, the p-th of them, and the events logged while the p-th target of the
\* client's call was built.
TargetEvents(k) == EventsOf(k, "target")
NthTarget(k, p) ==
    CHOOSE i \in TargetEvents(k) : Cardinality({j \in TargetEvents(k) : j < i}) = p - 1
Segment(k, p) ==
    (NthTarget(k, p) + 1) ..
        (IF p < Cardinality(TargetEvents(k)) THEN NthTarget(k, p + 1) - 1 ELSE Len(lastOp.log))
Ends(k, p) == {i \in Segment(k, p) : lastOp.log[i].ev = "end"}
Begins(k, p) == {i \in Segment(k, p) : lastOp.log[i].ev = "begin"}

\* C12: an inject builds its targets in the order of the request, each
\* with all it depends on before the next one is started; the i-th value it
\* yields is the instance built for the i-th target (for a name: the
\* instance bound to it or the plain value of the registry); one target is
\* yielded bare, several as a tuple.
C12_TargetOrder ==
    InjectOk =>
        LET k == LastCall
            T == Targets(k)
            R == calls[k].result
            live == frames[instances_by_name]
        IN  /\ Len(R) = Len(T)
            /\ calls[k].bare <=> Len(T) = 1
            /\ Cardinality(TargetEvents(k)) = Len(T)
            /\ \A p \in DOMAIN T :
                   /\ lastOp.log[NthTarget(k, p)].name = T[p].id
                   /\ Cardinality(Begins(k, p)) = Cardinality(Ends(k, p))
                   /\ Segment(k, p) # {} =>
                          LET last == lastOp.log[CHOOSE i \in Segment(k, p) :
                                                     \A j \in Segment(k, p) : j <= i]
                          IN  last.ev = "end" /\ last.fac # "" /\ R[p] = Inst(last.inst)
                   /\ T[p].kind = "name" =>
                          R[p] = IF T[p].id \in DOMAIN live THEN live[T[p].id]
                                 ELSE context[T[p].id].val

C12_Witness ==
    /\ InjectOk
    /\ \E p, q \in DOMAIN Targets(LastCall) :
           /\ p < q
           /\ Cardinality(Ends(LastCall, p)) >= 2
           /\ Ends(LastCall, q) # {}
           /\ calls[LastCall].result[p] # calls[LastCall].result[q]

----------------------------------------------------------------------------
(* Parameters *)

\* The events of the last operation in which _build_parameters decided
\* where the value of a parameter comes from.
Decisions ==
    {i \in DOMAIN lastOp.log :
        lastOp.log[i].ev \in {"byname", "skip", "default", "annotation", "unresolved"}}
ParamOf(f, n) ==
    Factories[f].params[CHOOSE i \in DOMAIN Factories[f].params :
                            Factories[f].params[i].name = n]
IsVariadic(p) == p.kind \in {"VAR_POSITIONAL", "VAR_KEYWORD"}

\* The names bound in the scope of the client's inject call just before
\* event i of the last operation: those bound when the call started and
\* those under which an instance has been built since.
BoundAt(i) ==
    calls[LastCall].bound0 \cup
        {lastOp.log[j].name : j \in {j \in 1..(i - 1) : /\ lastOp.log[j].ev = "end"
                                                        /\ lastOp.log[j].name # NoName}}
ByName(i) == lastOp.log[i].name \in BoundAt(i) \cup DOMAIN context

\* Event i is directly followed by the request to build factory f under name n.
Requests(i, f, n) ==
    /\ i < Len(lastOp.log)
    /\ lastOp.log[i + 1].ev = "request"
    /\ lastOp.log[i + 1].fac = f
    /\ lastOp.log[i + 1].name = n

\* C13: a parameter whose name is bound in the scope or present in the
\* registry is resolved by its name, and neither its default nor its
\* annotation is used; otherwise a variadic parameter is skipped, a
\* parameter with a default is left to its default and its annotated type
\* is not built; only a parameter with neither is built from its annotation.
C13_Precedence ==
    lastOp.op = "inject" =>
        \A i \in Decisions :
            LET n == lastOp.log[i].name
                p == ParamOf(lastOp.log[i].fac, n)
                how == lastOp.log[i].ev
            IN  /\ ByName(i) =>
                       /\ how = "byname"
                       /\ p.ann # NoAnn /\ Requests(i, p.ann, n) =>
                              /\ n \notin BoundAt(i)
                              /\ context[n].callable
                              /\ context[n].fac = p.ann
                /\ (~ByName(i) /\ IsVariadic(p)) => how = "skip"
                /\ (~ByName(i) /\ ~IsVariadic(p) /\ p.hasDefault) =>
                       /\ how = "default"
                       /\ p.ann # NoAnn => ~Requests(i, p.ann, n)
                /\ (~ByName(i) /\ ~IsVariadic(p) /\ ~p.hasDefault /\ p.ann # NoAnn) =>
                       /\ how = "annotation"
                       /\ Requests(i, p.ann, n)
                /\ how = "annotation" => (~ByName(i) /\ ~IsVariadic(p) /\ ~p.hasDefault)

C13_Witness ==
    /\ InjectOk
    /\ \E i, j \in Decisions :
           /\ lastOp.log[i].ev = "default"
           /\ ParamOf(lastOp.log[i].fac, lastOp.log[i].name).ann # NoAnn
           /\ lastOp.log[j].ev = "annotation"
           /\ lastOp.log[j].name \notin DOMAIN context

\* The first event after event i of the last operation that is an `ev` of
\* factory f (0 when there is none).
FirstAfter(i, ev, f) ==
    LET later == {j \in DOMAIN lastOp.log : /\ j > i
                                            /\ lastOp.log[j].ev = ev
                                            /\ lastOp.log[j].fac = f}
    IN  IF later = {} THEN 0 ELSE CHOOSE j \in later : \A h \in later : j <= h

\* C14: an instance built from the annotation of a parameter is bound in the
\* scope under the name of that parameter: a later parameter of that name
\* is resolved by name, builds nothing and receives the identical instance,
\* whatever its own annotation; the type built is that of the parameter
\* resolved first.
C14_BoundByParameterName ==
    InjectOk =>
        \A i \in Decisions :
            lastOp.log[i].ev = "annotation" =>
                LET n == lastOp.log[i].name
                    type == ParamOf(lastOp.log[i].fac, n).ann
                    built == lastOp.log[FirstAfter(i, "end", type)].inst
                IN  /\ insts[built].fac = type
                    /\ n \in DOMAIN frames[instances_by_name]
                    /\ frames[instances_by_name][n] = Inst(built)
                    /\ insts[lastOp.log[FirstAfter(i, "return", lastOp.log[i].fac)].inst].args[n]
                           = Inst(built)
                    /\ \A j \in Decisions :
                           (j > i /\ lastOp.log[j].name = n) =>
                               /\ lastOp.log[j].ev = "byname"
                               /\ lastOp.log[j + 1].ev # "request"
                               /\ insts[lastOp.log[FirstAfter(j, "return",
                                                              lastOp.log[j].fac)].inst].args[n]
                                      = Inst(built)

C14_Witness ==
    /\ InjectOk
    /\ \E i, j \in Decisions :
           /\ i < j
           /\ lastOp.log[i].ev = "annotation"
           /\ lastOp.log[j].name = lastOp.log[i].name
           /\ ParamOf(lastOp.log[j].fac, lastOp.log[j].name).ann
                  \notin {NoAnn, ParamOf(lastOp.log[i].fac, lastOp.log[i].name).ann}

\* The calls of factories in the last operation that returned an object,
\* the object, and the decision taken for parameter n of the called factory.
Returned == {c \in DOMAIN lastOp.log : /\ lastOp.log[c].ev = "call"
                                      /\ c < Len(lastOp.log)
                                      /\ lastOp.log[c + 1].ev = "return"}
Callee(c) == insts[lastOp.log[c + 1].inst]
DecisionFor(c, n) ==
    LET before == {i \in Decisions : /\ i < c
                                     /\ lastOp.log[i].fac = lastOp.log[c].fac
                                     /\ lastOp.log[i].name = n}
    IN  lastOp.log[CHOOSE i \in before : \A j \in before : j <= i].ev
\* The value the name n resolves to: the instance bound to it or the plain
\* value of the registry.
ResolvedFor(n) ==
    IF n \in DOMAIN frames[instances_by_name] THEN frames[instances_by_name][n]
    ELSE context[n].val
NamedParams(f) ==
    {Factories[f].params[i] : i \in {j \in DOMAIN Factories[f].params :
                                        ~IsVariadic(Factories[f].params[j])}}
VariadicParams(f, kind) ==
    {Factories[f].params[i] : i \in {j \in DOMAIN Factories[f].params :
                                        Factories[f].params[j].kind = kind}}

\* C15: a factory is called so that every parameter resolved by its name
\* holds the value resolved for that name, and every parameter left to its
\* default holds its default; the call does not raise TypeError.
C15_ArgumentsReachTheirParameter ==
    lastOp.op = "inject" =>
        /\ lastOp.err # TypeError
        /\ \A c \in Returned : \A p \in NamedParams(lastOp.log[c].fac) :
               /\ DecisionFor(c, p.name) = "byname" =>
                      Callee(c).args[p.name] = ResolvedFor(p.name)
               /\ DecisionFor(c, p.name) = "default" =>
                      Callee(c).args[p.name] = Default

\* C16: a variadic parameter whose name is neither bound nor in the registry
\* is skipped without error, and the callee holds no variadic arguments for
\* it; one whose name is resolvable holds the items of the sequence, or the
\* entries of the mapping, resolved for its name.
C16_Variadic ==
    lastOp.op = "inject" =>
        /\ \A i \in Decisions :
               (IsVariadic(ParamOf(lastOp.log[i].fac, lastOp.log[i].name)) /\ ~ByName(i))
                   => lastOp.log[i].ev = "skip"
        /\ \A c \in Returned :
               /\ \A p \in VariadicParams(lastOp.log[c].fac, "VAR_POSITIONAL") :
                      Callee(c).star = IF DecisionFor(c, p.name) = "skip" THEN <<>>
                                       ELSE Items(St, ResolvedFor(p.name))
               /\ \A p \in VariadicParams(lastOp.log[c].fac, "VAR_KEYWORD") :
                      Callee(c).extra = IF DecisionFor(c, p.name) = "skip" THEN EmptyDict
                                        ELSE Entries(St, ResolvedFor(p.name))

\* Parameter i of factory f is resolved without building anything and
\* without error: its name is a plain value of the registry, or it is
\* variadic, or it declares a default.
PlainlyResolved(f, i) ==
    LET p == Factories[f].params[i]
    IN  \/ p.name \in DOMAIN context /\ ~context[p.name].callable
        \/ IsVariadic(p)
        \/ p.hasDefault
\* Parameter i of factory f cannot be resolved in the scope of the last call.
Unresolvable(f, i) ==
    LET p == Factories[f].params[i]
    IN  /\ p.name \notin DOMAIN context \cup calls[LastCall].bound0
        /\ ~IsVariadic(p)
        /\ ~p.hasDefault
        /\ p.ann = NoAnn

\* C17: an inject of a factory whose parameter has no binding in the scope,
\* no registry entry, no default and no callable annotation, and whose
\* earlier parameters are resolved without building anything, fails with an
\* error that names that parameter and the factory; the factory is not
\* invoked.
C17_UnresolvedParameter ==
    \A f \in DOMAIN Factories : \A i \in DOMAIN Factories[f].params :
        ( /\ lastOp.op = "inject"
          /\ Targets(LastCall) = <<F(f)>>
          /\ Unresolvable(f, i)
          /\ \A j \in 1..(i - 1) : PlainlyResolved(f, j) ) =>
            /\ lastOp.err.kind = "JunkieError"
            /\ lastOp.err.why = "Unable to find parameter"
            /\ lastOp.err.subj = Factories[f].params[i].name
            /\ lastOp.err.fac = f
            /\ \A c \in DOMAIN lastOp.log :
                   ~(lastOp.log[c].ev = "call" /\ lastOp.log[c].fac = f)

----------------------------------------------------------------------------
(* Errors of the request *)

\* The events of the last operation by which something is requested,
\* built or acquired.
Building == {"target", "request", "begin", "call", "return", "enter", "end",
             "byname", "skip", "default", "annotation", "unresolved"}
BuiltFor(k, p) == {i \in Segment(k, p) : lastOp.log[i].ev \in Building}
Reached(k) == 1..Cardinality(TargetEvents(k))

\* C18: a string target bound in the scope yields the instance bound there
\* and nothing is built for it, whatever the registry holds; one that is
\* neither bound in the scope nor present in the registry makes the inject
\* fail with an error naming it, and nothing is built for it or after it.
C18_NameNotFound ==
    lastOp.op = "inject" =>
        \A p \in Reached(LastCall) :
            LET n == Targets(LastCall)[p].id
                bound == n \in BoundAt(NthTarget(LastCall, p))
            IN  Targets(LastCall)[p].kind = "name" =>
                    /\ bound =>
                           /\ BuiltFor(LastCall, p) = {}
                           /\ InjectOk => calls[LastCall].result[p]
                                              = frames[instances_by_name][n]
                    /\ (~bound /\ n \notin DOMAIN context) =>
                           /\ lastOp.err.kind = "JunkieError"
                           /\ lastOp.err.why = "Unable to find"
                           /\ lastOp.err.subj = n
                           /\ BuiltFor(LastCall, p) = {}

C18_Witness ==
    /\ lastOp.op = "inject"
    /\ lastOp.err.why = "Unable to find"
    /\ Cardinality(TargetEvents(LastCall)) = 2
    /\ Targets(LastCall)[1].id \in calls[LastCall].bound0 \cap DOMAIN context
    /\ BuiltFor(LastCall, 1) = {}

\* The requests of the last operation to build a built-in type.
BuiltinRequests ==
    {i \in DOMAIN lastOp.log : lastOp.log[i].ev = "request" /\ lastOp.log[i].fac \in BUILTINS}

\* C19: a request to build a built-in type, as a target, as the value of a
\* registry name or as the annotation of a parameter, ends the inject with
\* an error naming the type and the name it was requested for; the type is
\* never called and never enters the cycle-detection set or the
\* instantiation stack, and nothing is built after the request.  A
\* parameter annotated with a built-in type whose name is resolvable is
\* resolved by its name and the type is not requested.
C19_BuiltinsNeverBuilt ==
    /\ \A i \in BuiltinRequests :
           /\ lastOp.op = "inject"
           /\ lastOp.err.kind = "JunkieError"
           /\ lastOp.err.why = "builtin type"
           /\ lastOp.err.fac = lastOp.log[i].fac
           /\ lastOp.err.subj = lastOp.log[i].name
           /\ \A j \in DOMAIN lastOp.log : j > i => lastOp.log[j].ev \notin Building
    /\ \A o \in DOMAIN insts : insts[o].fac \notin BUILTINS
    /\ cycle_detection_instance_set \cap BUILTINS = {}
    /\ \A i \in DOMAIN instantiation_stack : instantiation_stack[i] \notin BUILTINS
    /\ lastOp.op = "inject" =>
           \A i \in Decisions :
               LET p == ParamOf(lastOp.log[i].fac, lastOp.log[i].name)
               IN  (p.ann \in BUILTINS /\ ByName(i)) =>
                       /\ lastOp.log[i].ev = "byname"
                       /\ ~Requests(i, p.ann, p.name)
                       /\ lastOp.err.why # "builtin type"

C19_Witness ==
    /\ InjectFailed
    /\ lastOp.err.why = "builtin type"
    /\ lastOp.err.subj = "c"
    /\ lastOp.err.path # <<>>
    /\ \E k \in 1..(LastCall - 1) :
           calls[k].state = "failed" /\ calls[k].targets \in {<<F("str")>>, <<N("s")>>}

\* C20: an inject with a target that is neither a string nor a callable
\* fails; no target after the first such target is started, and when that
\* target is reached the error is the one that names it.
C20_InvalidTarget ==
    lastOp.op = "inject" =>
        LET T == Targets(LastCall)
            invalid == {p \in DOMAIN T : T[p].kind = "other"}
        IN  invalid # {} =>
                LET first == CHOOSE p \in invalid : \A q \in invalid : p <= q
                IN  /\ InjectFailed
                    /\ Cardinality(TargetEvents(LastCall)) <= first
                    /\ BuiltFor(LastCall, Cardinality(TargetEvents(LastCall))) = {}
                           \/ Cardinality(TargetEvents(LastCall)) < first
                    /\ Cardinality(TargetEvents(LastCall)) = first =>
                           /\ lastOp.err.kind = "JunkieError"
                           /\ lastOp.err.why = "Unknown type"
                           /\ lastOp.err.subj = T[first].id

C20_Witness ==
    /\ InjectFailed
    /\ lastOp.err.why = "Unknown type"
    /\ Cardinality(TargetEvents(LastCall)) = 2
    /\ Len(Targets(LastCall)) = 3
    /\ BuiltFor(LastCall, 1) # {}

----------------------------------------------------------------------------
(* Plain values *)

PlainNames == {n \in DOMAIN context : ~context[n].callable}

\* C21: a target that names a plain value of the registry yields that
\* value, and a parameter of that name holds that value in the callee;
\* nothing is requested, invoked or acquired for it.
C21_PlainValues ==
    lastOp.op = "inject" =>
        /\ \A p \in Reached(LastCall) :
               (Targets(LastCall)[p].kind = "name" /\ Targets(LastCall)[p].id \in PlainNames) =>
                   /\ BuiltFor(LastCall, p) = {}
                   /\ InjectOk => calls[LastCall].result[p]
                                      = context[Targets(LastCall)[p].id].val
        /\ \A i \in Decisions :
               lastOp.log[i].name \in PlainNames =>
                   lastOp.log[i].ev = "byname" /\ lastOp.log[i + 1].ev # "request"
        /\ \A c \in Returned : \A p \in NamedParams(lastOp.log[c].fac) :
               p.name \in PlainNames => Callee(c).args[p.name] = context[p.name].val

----------------------------------------------------------------------------
(* extend *)

\* C22: extend(m) raises an error that lists the duplicated names whenever
\* a name of m is in the registry or bound in the live scope, and then
\* neither the registry nor the scopes of the Junkie change.
C22_ExtendRejectsOverriding ==
    [][lastOp'.op = "extend" =>
          LET dup == DOMAIN lastOp'.m \cap
                         (DOMAIN frames[instances_by_name] \cup DOMAIN context)
          IN  dup # {} =>
                  /\ lastOp'.err = ExtendError
                  /\ lastOp'.names = dup
                  /\ UNCHANGED <<context, frames, instances_by_name,
                                 instances_by_name_stack, junkies>>]_vars
C22_Witness ==
    /\ lastOp.op = "extend"
    /\ lastOp.err = ExtendError
    /\ lastOp.names # {}
    /\ lastOp.names \cap DOMAIN context = {}

\* C23: after extend(m) succeeded while an inject scope of the Junkie is
\* open, the Junkie contains every name of m with the value given.
C23_ExtendIsScoped ==
    (lastOp.op = "extend" /\ lastOp.err = NoErr /\ withStack # <<>>) =>
        \A n \in DOMAIN lastOp.m :
            /\ n \in DOMAIN frames[instances_by_name]
            /\ frames[instances_by_name][n] = lastOp.m[n]

\* Name n resolves on a Junkie over `mapping`, to what.
Resolved(mapping, n) == InjectEnter(Fresh(mapping), <<N(n)>>)
CouldResolve(mapping, n) == Ok(Resolved(mapping, n))

\* C24: the Junkie that extend(m) returned resolves every name of m to the
\* value given and every name the registry of the extended Junkie resolved.
C24_ExtendNeverShrinks ==
    \A o \in DOMAIN junkies :
        ~junkies[o].shared =>
            /\ \A n \in DOMAIN junkies[o].m :
                   /\ CouldResolve(ContextOf(o), n)
                   /\ Resolved(ContextOf(o), n).calls[1].result[1] = junkies[o].m[n]
            /\ \A n \in DOMAIN junkies[o].registry0 :
                   CouldResolve(junkies[o].registry0, n) => CouldResolve(ContextOf(o), n)

\* C25: "_junkie" resolves to the Junkie it is resolved on, as a target and
\* as a parameter, whatever other Junkie objects have been constructed.
C25_SelfReference ==
    /\ CouldResolve(context, "_junkie")
    /\ Resolved(context, "_junkie").calls[1].result[1] = JunkieSelf
    /\ \A o \in DOMAIN junkies :
           /\ CouldResolve(ContextOf(o), "_junkie")
           /\ Resolved(ContextOf(o), "_junkie").calls[1].result[1] = JunkieRef(o)
    /\ lastOp.op = "inject" =>
           \A c \in Returned :
               "_junkie" \in DOMAIN Callee(c).args => Callee(c).args["_junkie"] = JunkieSelf

----------------------------------------------------------------------------
(* Context *)

\* C26: a build of name n by a Context yields what the entry most recently
\* added for n gives: the value when it is not callable, the product of a
\* call of it when it is callable.
C26_ContextLastWriteWins ==
    (lastOp.op = "build" /\ ctx_built.target \in DOMAIN ctx_latest) =>
        LET entry == ctx_latest[ctx_built.target]
        IN  /\ ctx_built.err = ""
            /\ ctx_built.ret = IF entry.callable THEN ProductOf(entry.val) ELSE entry.val

----------------------------------------------------------------------------
(* Teardown and the scope *)

\* C29: when an inject is left, every release of that inject has run
\* before the scope of that inject is popped.
C29_TeardownPrecedesPop ==
    Left =>
        \A e \in EventsOf(LastCall, "exit") : \A p \in EventsOf(LastCall, "pop") : e < p

----------------------------------------------------------------------------
(* Scoped resources *)

ScopedProducts == {"res", "resx", "gen", "cmnest", "cmlist"}
\* The products that are not what their __enter__ returns.
Raw == {Inst(i) : i \in {j \in DOMAIN insts : insts[j].product \in {"gen", "cmnest", "cmlist"}}}
\* The events after event i that the inject call of event i logged itself.
Later(i) == {j \in DOMAIN lastOp.log : /\ j > i
                                       /\ lastOp.log[j].call = lastOp.log[i].call
                                       /\ lastOp.log[j].ev \in {"enter", "call", "request",
                                                                 "target", "end"}}
ScopedReturns == {i \in DOMAIN lastOp.log :
                     /\ lastOp.log[i].ev = "return"
                     /\ insts[lastOp.log[i].inst].product \in ScopedProducts}

\* C30: the product of a factory that is a scoped resource is acquired
\* right after the factory returned, before anything else is built, and
\* what is bound, passed to a dependent or yielded is never the product of
\* a factory whose acquire step returns something else.
C30_AcquireAtBuildTime ==
    /\ lastOp.op = "inject" =>
           \A i \in ScopedReturns :
               /\ InjectOk => Later(i) # {}
               /\ \A j \in Later(i) :
                      (\A h \in Later(i) : j <= h) =>
                          /\ lastOp.log[j].ev = "enter"
                          /\ lastOp.log[j].inst = lastOp.log[i].inst
    /\ \A d \in DOMAIN frames : \A n \in DOMAIN frames[d] : frames[d][n] \notin Raw
    /\ \A k \in DOMAIN calls : \A p \in DOMAIN calls[k].result : calls[k].result[p] \notin Raw
    /\ \A i \in DOMAIN insts :
           /\ \A n \in DOMAIN insts[i].args : insts[i].args[n] \notin Raw
           /\ \A p \in DOMAIN insts[i].star : insts[i].star[p] \notin Raw
C30_Witness ==
    /\ InjectOk
    /\ \E i \in ScopedReturns : \E j \in Later(i) : lastOp.log[j].ev = "call"
    /\ \E p \in DOMAIN calls[LastCall].result :
           /\ calls[LastCall].result[p].kind = "inst"
           /\ insts[calls[LastCall].result[p].id].product = "yielded"

----------------------------------------------------------------------------
(* The mapping view *)

\* The inject calls whose scope has not ended, and the instances they bound
\* to names: for each name the binding of the innermost such call.
OpenCalls == {k \in DOMAIN calls : calls[k].state = "open"}
Binders(n) == {k \in OpenCalls : n \in DOMAIN calls[k].bindings}
AllNames == DOMAIN context \cup Iter \cup UNION {DOMAIN calls[k].bindings : k \in DOMAIN calls}
Innermost(n) == CHOOSE k \in Binders(n) : \A j \in Binders(n) : j <= k

\* C28: the mapping interface of the Junkie shows exactly the names that
\* the inject calls still open have bound, each with the instance bound
\* and handed out for it; plain values of the registry and instances built
\* for the factory targets of a client are not listed, and an unbound name
\* gives KeyError.
C28_MappingView ==
    /\ Iter = {n \in AllNames : Binders(n) # {}}
    /\ LenOf = Cardinality({n \in AllNames : Binders(n) # {}})
    /\ \A n \in AllNames :
           /\ Contains(n) <=> Binders(n) # {}
           /\ GetItem(n) = IF Binders(n) # {} THEN calls[Innermost(n)].bindings[n]
                           ELSE KeyError
    /\ Iter \cap PlainNames = {}
    /\ \A k \in OpenCalls : \A p \in DOMAIN calls[k].result :
           /\ (Targets(k)[p].kind = "name" /\ Contains(Targets(k)[p].id)) =>
                  calls[k].result[p] = GetItem(Targets(k)[p].id)
           /\ (calls[k].client /\ Targets(k)[p].kind = "factory") =>
                  \A n \in Iter : GetItem(n) # calls[k].result[p]

----------------------------------------------------------------------------
(* inject_list *)

\* The lists that wrappers of inject_list have yielded, their items, and the
\* inject call a wrapper made for its list while call `owner` was built.
Lists == {i \in DOMAIN insts : insts[i].product = "list"}
Elements(i) == insts[i].star
ListCalls(i) == {k \in DOMAIN calls : /\ calls[k].by = insts[i].owner
                                      /\ Targets(k) = Factories[insts[i].fac].nest
                                      /\ calls[k].result = Elements(i)}
IsListName(n) ==
    /\ n \in FactoryNames
    /\ Factories[context[n].fac].product = "cmlist"

\* C27: a name mapped to inject_list(t1, ..., tn) resolves to a list of the
\* n instances that an inject of t1, ..., tn on the same Junkie yielded, in
\* order, and what was acquired for them is not released while the inject
\* that built the list is open.
C27_InjectList ==
    /\ \A i \in Lists :
           LET nest == Factories[insts[i].fac].nest
           IN  /\ Len(Elements(i)) = Len(nest)
               /\ ListCalls(i) # {}
               /\ \A p \in DOMAIN nest :
                      nest[p].kind = "factory" =>
                          /\ Elements(i)[p].kind = "inst"
                          /\ insts[Elements(i)[p].id].fac = nest[p].id
               /\ calls[insts[i].owner].state = "open" =>
                      \A k \in ListCalls(i) :
                          /\ calls[k].state = "open"
                          /\ \A r \in Owned(k) : Count(released, r) = 0
    /\ InjectOk =>
           \A p \in DOMAIN calls[LastCall].result :
               (Targets(LastCall)[p].kind = "name" /\ IsListName(Targets(LastCall)[p].id)) =>
                   LET l == calls[LastCall].result[p]
                       nest == Factories[context[Targets(LastCall)[p].id].fac].nest
                   IN  /\ l.kind = "inst"
                       /\ l.id \in Lists
                       /\ insts[l.id].fac = context[Targets(LastCall)[p].id].fac
                       /\ \A q \in DOMAIN nest :
                              nest[q].kind = "name" => Elements(l.id)[q] = GetItem(nest[q].id)

----------------------------------------------------------------------------
(* Failing releases *)

\* The releases of the last operation that raised, in the order they ran.
FailedReleases == {i \in DOMAIN lastOp.log : /\ lastOp.log[i].ev = "exit"
                                             /\ insts[lastOp.log[i].inst].product = "resx"}
\* Every resource acquired for the inject just left was released, once.
AllReleased ==
    Restrict(released, Owned(LastCall)) = Reverse(Restrict(acquired, Owned(LastCall)))

\* C31: when a release raises while an inject is left, the remaining
\* releases still run, and the failure of the release that failed first is
\* what the caller gets.
C31_UnwindContinues ==
    (Left /\ FailedReleases # {}) =>
        /\ AllReleased
        /\ \A i \in FailedReleases :
               (\A j \in FailedReleases : i <= j) =>
                   lastOp.err = ReleaseError(lastOp.log[i].fac)

----------------------------------------------------------------------------
(* The path in the error message *)

\* The factories that the last operation began to build and did not end, in
\* the order in which they were begun: those under construction when it
\* failed.
Unended == {i \in DOMAIN lastOp.log :
               /\ lastOp.log[i].ev = "begin"
               /\ \A j \in DOMAIN lastOp.log :
                      ~(j > i /\ lastOp.log[j].ev = "end"
                              /\ lastOp.log[j].fac = lastOp.log[i].fac)}
ConstructionPath ==
    LET IsUnended(i) == i \in Unended
        at == SelectSeq([i \in 1..Len(lastOp.log) |-> i], IsUnended)
    IN  [n \in 1..Len(at) |-> lastOp.log[at[n]].fac]
Suffix(seq, n) == SubSeq(seq, Len(seq) - n + 1, Len(seq))

\* C32: when a parameter of a nested factory cannot be resolved, the error
\* lists the factories under construction at that moment and no others,
\* from the outermost to the failing factory.
C32_PathOfTheTests ==
    (InjectFailed /\ lastOp.err.why = "Unable to find parameter") =>
        /\ lastOp.err.path = ConstructionPath
        /\ Peek(lastOp.err.path) = lastOp.err.fac

----------------------------------------------------------------------------
(* DependencyCycleChecker *)

OnStack(name) == \E i \in DOMAIN instance_stack : instance_stack[i] = name
DuplicateFree ==
    \A i, j \in DOMAIN instance_stack : instance_stack[i] = instance_stack[j] => i = j

\* A call on the checker does what C34 says of it.
CheckerStep ==
    /\ (checked'.op = "push" /\ OnStack(checked'.arg)) =>
           /\ checked'.err = "DependencyCycleError"
           /\ Len(checked'.message) = Len(instance_stack) + 1
           /\ \A n \in DOMAIN instance_stack :
                  checked'.message[n].name = instance_stack[n]
           /\ checked'.message[Len(instance_stack) + 1].name = checked'.arg
           /\ instance_stack' = instance_stack
    /\ (checked'.op = "push" /\ ~OnStack(checked'.arg)) =>
           /\ checked'.err = ""
           /\ instance_stack' = Append(instance_stack, checked'.arg)
    /\ (checked'.op = "pop" /\ instance_stack = <<>>) =>
           /\ checked'.err = "IndexError"
           /\ instance_stack' = instance_stack
    /\ (checked'.op = "pop" /\ instance_stack # <<>>) =>
           /\ checked'.err = ""
           /\ checked'.ret = instance_stack[Len(instance_stack)]
           /\ instance_stack' = SubSeq(instance_stack, 1, Len(instance_stack) - 1)

\* C34: the stack of the checker never holds a name twice; push of a name
\* on the stack raises DependencyCycleError listing the names in push order
\* and then the repeated name, and leaves the stack as it is; pop removes
\* and returns the name pushed last and raises IndexError on an empty stack.
C34_DependencyCycleChecker == [](DuplicateFree) /\ [][CheckerStep]_vars
C34_Witness ==
    /\ checked.err = "DependencyCycleError"
    /\ Len(instance_stack) = 3
    /\ checked.arg = instance_stack[1]

----------------------------------------------------------------------------
(* Use after release *)

IsReleased(value) == value.kind = "inst" /\ Count(released, value.id) > 0
\* The release of `value` had run when event c of the last operation was logged.
ReleasedBefore(value, c) ==
    /\ value.kind = "inst"
    /\ Count(released, value.id) >
           Cardinality({i \in DOMAIN lastOp.log : /\ i > c
                                                  /\ lastOp.log[i].ev = "exit"
                                                  /\ lastOp.log[i].inst = value.id})

\* C35: no inject yields, and no factory is passed, an instance whose
\* release has already run.
C35_NoUseAfterRelease ==
    lastOp.op = "inject" =>
        /\ InjectOk => \A p \in DOMAIN calls[LastCall].result :
                           ~IsReleased(calls[LastCall].result[p])
        /\ \A c \in Returned : \A n \in DOMAIN Callee(c).args :
               ~ReleasedBefore(Callee(c).args[n], c)

----------------------------------------------------------------------------
(* The Junkie at rest *)

\* Every inject call so far, the clients' and the factories', has exited
\* normally and none is open.
AllExitedNormally ==
    /\ withStack = <<>>
    /\ \A k \in DOMAIN calls : calls[k].state = "closed"

\* A release action is pending: a callback waits on an ExitStack, or a
\* resource that was acquired has not been released.
ReleasePending ==
    \/ \E es \in DOMAIN exit_stacks : exit_stacks[es] # <<>>
    \/ \E i \in DOMAIN insts : Count(acquired, i) > Count(released, i)

\* C36: after any sequence of properly nested inject calls that all exited
\* normally, those opened by factories included, the scope stack holds only
\* the empty bottom frame, the instantiation path and the cycle-detection set
\* are empty and no release action is pending.
C36_ReturnToInitialState ==
    AllExitedNormally =>
        /\ instances_by_name_stack = <<1>>
        /\ instances_by_name = 1
        /\ frames[1] = EmptyDict
        /\ instantiation_stack = <<>>
        /\ cycle_detection_instance_set = {}
        /\ ~ReleasePending

----------------------------------------------------------------------------
(* The live frame *)

\* C37: in every reachable state the scope stack is non-empty and the dict
\* that lookups and bindings use is the top frame of the stack, also when an
\* inject opened by a factory is still open while the outer inject exits.
C37_LiveFrameIsTop ==
    /\ instances_by_name_stack # <<>>
    /\ instances_by_name_stack[1] = 1
    /\ instances_by_name = Peek(instances_by_name_stack)

\* An outer inject has just exited normally: it popped the scope stack
\* while an inject that one of its factories had opened during construction
\* was still open, and that inject popped afterwards.
C37_Witness ==
    /\ lastOp.op = "exit"
    /\ lastOp.err = NoErr
    /\ \E k \in DOMAIN calls :
           /\ ~calls[k].client
           /\ calls[k].by = LastCall
           /\ \E i \in EventsOf(LastCall, "pop") : \E j \in EventsOf(k, "pop") : i < j

----------------------------------------------------------------------------
(* The instantiation path *)

NoDuplicates(seq) == \A i, j \in DOMAIN seq : seq[i] = seq[j] => i = j
Range(seq) == {seq[i] : i \in DOMAIN seq}

----------------------------------------------------------------------------
(* Termination *)

\* The factories the last operation began to build.
Begun == {lastOp.log[i].fac : i \in {j \in DOMAIN lastOp.log : lastOp.log[j].ev = "begin"}}

\* How many of the first i events of the last operation are ev events.
Upto(i, ev) == Cardinality({j \in 1..i : lastOp.log[j].ev = ev})

\* The length of the instantiation path when event i of the last operation
\* had been logged: every "begin" pushed one factory, every "end" popped one.
DepthAt(i) ==
    LET n == Len(lastOp.log) IN
    Len(instantiation_stack) - (Upto(n, "begin") - Upto(n, "end"))
        + (Upto(i, "begin") - Upto(i, "end"))

\* C39: every inject call finishes building, with a value for every target
\* or with an error; the instantiation path never holds more entries than
\* there are distinct factories, neither between operations nor at any
\* point of a build, so the depth of the recursion is bounded.
C39_Termination ==
    /\ lastOp.op = "inject" =>
           IF lastOp.err = NoErr
           THEN /\ calls[LastCall].state = "open"
                /\ Len(calls[LastCall].result) = Len(calls[LastCall].targets)
           ELSE calls[LastCall].state = "failed"
    /\ Len(instantiation_stack) <= Cardinality(Range(instantiation_stack))
    /\ \A i \in DOMAIN lastOp.log :
           DepthAt(i) <= Cardinality(Range(instantiation_stack) \cup Begun)
    /\ Cardinality(Range(instantiation_stack) \cup Begun) <= Cardinality(DOMAIN Factories)

\* A build that requested a factory of its own path again has finished with
\* the cycle error, two factories deep.
C39_Witness ==
    /\ InjectFailed
    /\ lastOp.err.why = "Dependency cycle"
    /\ \E i \in DOMAIN lastOp.log : DepthAt(i) >= 2
    /\ calls[LastCall].state = "failed"
====
